---------------------------- MODULE Spec2Model ----------------------------
(***************************************************************************)
(* Model of the exam-recorder: the persisted session counter (state.rs),   *)
(* the recorder life cycle and its PTY relay loop (recorder.rs, main.rs),  *)
(* and the keystroke classifier with its paste detector (recorder.rs).     *)
(*                                                                         *)
(* Bytes are numbers 0..255, byte strings are sequences of bytes, the      *)
(* clock counts milliseconds.  A state file is modelled by the parts of    *)
(* its bytes the loader looks at: whether it is long enough to hold a      *)
(* nonce, whether its AES-GCM tag authenticates under the machine key,     *)
(* whether the plaintext holds 32 checksum bytes, the JSON payload and the *)
(* digest stored behind it.                                                *)
(***************************************************************************)
EXTENDS Integers, Sequences, FiniteSets, TLC

(***************************************************************************)
(* Bounds of the model.                                                    *)
(***************************************************************************)
\* recorder processes started on the machine
MaxRuns == 3
\* last value of the millisecond clock
MaxClock == 1
\* bytes the shell writes to its side of the PTY in one session
MaxOut == 1
\* bytes handed to process_input in the classifier specification
MaxKeys == 7

(***************************************************************************)
(* Program constants.                                                      *)
(***************************************************************************)
\* let mut buffer = [0u8; 4096]
BufSize == 4096
\* Duration::from_millis(100), the paste window
PasteWindowMs == 100
\* min_chars_for_paste
MinCharsForPaste == 20
\* threshold_chars_per_ms
ThresholdCharsPerMs == 10
\* perms.set_mode(0o000) in State::save
StateFileMode == 0
\* process::exit(1)
ExitFailure == 1
\* main returns
ExitSuccess == 0

\* b"exit"
ExitWord == <<101, 120, 105, 116>>

LineTerminators == {10, 13}

Max(a, b) == IF a >= b THEN a ELSE b

Min(a, b) == IF a <= b THEN a ELSE b

(***************************************************************************)
(* str::trim on ASCII text.                                                *)
(***************************************************************************)
IsWhitespace(b) == b \in {9, 10, 11, 12, 13, 32}

RECURSIVE TrimStart(_)
TrimStart(s) ==
    IF s = <<>> THEN s
    ELSE IF IsWhitespace(Head(s)) THEN TrimStart(Tail(s)) ELSE s

RECURSIVE TrimEnd(_)
TrimEnd(s) ==
    IF s = <<>> THEN s
    ELSE IF IsWhitespace(s[Len(s)]) THEN TrimEnd(SubSeq(s, 1, Len(s) - 1)) ELSE s

Trim(s) == TrimEnd(TrimStart(s))

(***************************************************************************)
(* Recorder::decode_key.                                                   *)
(***************************************************************************)
\* Text is kept as the sequence of its ASCII codes.
NameNull == <<78, 85, 76, 76>>
NameCtrl(letter) == <<67, 116, 114, 108, 43, letter>>
NameBackspace == <<66, 97, 99, 107, 115, 112, 97, 99, 101>>
NameTab == <<84, 97, 98>>
NameEnter == <<69, 110, 116, 101, 114>>
NameEsc == <<69, 83, 67>>
NameDelete == <<68, 101, 108, 101, 116, 101>>

\* one upper-case hexadecimal digit
HexDigit(d) == IF d < 10 THEN 48 + d ELSE 55 + d

\* FormatHex with lower-case digits
FormatHexLower(byte) ==
    LET digit(d) == IF d < 10 THEN 48 + d ELSE 87 + d
    IN  <<48, 120, digit(byte \div 16), digit(byte % 16)>>

\* format!("0x{:02X}", byte)
FormatHex(byte) == <<48, 120, HexDigit(byte \div 16), HexDigit(byte % 16)>>

DecodeKey(byte) ==
    CASE byte = 0 -> [name |-> NameNull, special |-> TRUE]
      [] byte = 1 -> [name |-> NameCtrl(65), special |-> TRUE]
      [] byte = 2 -> [name |-> NameCtrl(66), special |-> TRUE]
      [] byte = 3 -> [name |-> NameCtrl(67), special |-> TRUE]
      [] byte = 4 -> [name |-> NameCtrl(68), special |-> TRUE]
      [] byte = 5 -> [name |-> NameCtrl(69), special |-> TRUE]
      [] byte = 6 -> [name |-> NameCtrl(70), special |-> TRUE]
      [] byte = 7 -> [name |-> NameCtrl(71), special |-> TRUE]
      [] byte = 8 \/ byte = 127 -> [name |-> NameBackspace, special |-> TRUE]
      [] byte = 9 -> [name |-> NameTab, special |-> TRUE]
      [] byte = 10 \/ byte = 13 -> [name |-> NameEnter, special |-> TRUE]
      [] byte = 27 -> [name |-> NameEsc, special |-> TRUE]
      [] byte >= 32 /\ byte <= 126 -> [name |-> <<byte>>, special |-> FALSE]
      [] OTHER -> [name |-> FormatHex(byte), special |-> TRUE]

(***************************************************************************)
(* PasteDetector::check_paste.  recent is the deque recent_keystrokes, a   *)
(* sequence of [time, count]; the result is the flag and the deque left.   *)
(***************************************************************************)
\* EvictOld that keeps every entry
EvictNothing(recent, now) == recent

RECURSIVE EvictOld(_, _)
EvictOld(recent, now) ==
    IF recent = <<>> THEN recent
    ELSE IF now - Head(recent).time > PasteWindowMs
         THEN EvictOld(Tail(recent), now)
         ELSE recent

RECURSIVE TotalChars(_)
TotalChars(recent) ==
    IF recent = <<>> THEN 0 ELSE Head(recent).count + TotalChars(Tail(recent))

\* check_paste that keeps the window when it returns true
CheckPasteKeepsWindow(recent, now, char_count) ==
    LET kept == EvictOld(Append(recent, [time |-> now, count |-> char_count]), now)
        total_chars == TotalChars(kept)
    IN  IF kept = <<>> THEN [paste |-> FALSE, recent |-> kept]
        ELSE LET time_span == Max(kept[Len(kept)].time - Head(kept).time, 1)
             IN  [paste |-> /\ total_chars >= MinCharsForPaste
                            /\ (total_chars * 1000) \div time_span
                                  >= ThresholdCharsPerMs,
                  recent |-> kept]

CheckPaste(recent, now, char_count) ==
    LET kept == EvictOld(Append(recent, [time |-> now, count |-> char_count]), now)
        total_chars == TotalChars(kept)
    IN  IF kept = <<>> THEN [paste |-> FALSE, recent |-> kept]
        ELSE LET time_span == Max(kept[Len(kept)].time - Head(kept).time, 1)
             IN  IF total_chars >= MinCharsForPaste
                    /\ (total_chars * 1000) \div time_span >= ThresholdCharsPerMs
                 THEN [paste |-> TRUE, recent |-> <<>>]
                 ELSE [paste |-> FALSE, recent |-> kept]

(***************************************************************************)
(* Recorder::process_input.  r holds the fields it touches: keystrokes,    *)
(* commands, current_input and the paste detector's deque.                 *)
(***************************************************************************)
PopLast(s) == IF s = <<>> THEN s ELSE SubSeq(s, 1, Len(s) - 1)

\* TrackInput without the test that keeps "exit" out of the commands
TrackInputKeepsExit(r, byte, timestamp, is_special) ==
    IF byte \in LineTerminators
    THEN LET cmd == Trim(r.current_input)
         IN  [r EXCEPT !.commands =
                          IF cmd # <<>>
                          THEN Append(@, [timestamp |-> timestamp, command |-> cmd])
                          ELSE @,
                       !.current_input = <<>>]
    ELSE IF byte = 127 \/ byte = 8
    THEN [r EXCEPT !.current_input = PopLast(@)]
    ELSE IF byte >= 32 /\ byte < 127 /\ ~is_special
    THEN [r EXCEPT !.current_input = Append(@, byte)]
    ELSE r

\* TrackInput in which Backspace empties the line buffer
TrackInputBackspaceClears(r, byte, timestamp, is_special) ==
    IF byte \in LineTerminators
    THEN LET cmd == Trim(r.current_input)
         IN  [r EXCEPT !.commands =
                          IF cmd # <<>> /\ cmd # ExitWord
                          THEN Append(@, [timestamp |-> timestamp, command |-> cmd])
                          ELSE @,
                       !.current_input = <<>>]
    ELSE IF byte = 127 \/ byte = 8
    THEN [r EXCEPT !.current_input = <<>>]
    ELSE IF byte >= 32 /\ byte < 127 /\ ~is_special
    THEN [r EXCEPT !.current_input = Append(@, byte)]
    ELSE r

\* TrackInput in which any other byte cancels the line, as Ctrl+C does in a shell
TrackInputControlCancels(r, byte, timestamp, is_special) ==
    IF byte \in LineTerminators
    THEN LET cmd == Trim(r.current_input)
         IN  [r EXCEPT !.commands =
                          IF cmd # <<>> /\ cmd # ExitWord
                          THEN Append(@, [timestamp |-> timestamp, command |-> cmd])
                          ELSE @,
                       !.current_input = <<>>]
    ELSE IF byte = 127 \/ byte = 8
    THEN [r EXCEPT !.current_input = PopLast(@)]
    ELSE IF byte >= 32 /\ byte < 127 /\ ~is_special
    THEN [r EXCEPT !.current_input = Append(@, byte)]
    ELSE [r EXCEPT !.current_input = <<>>]

\* the command-tracking branch of the loop body, for one byte
TrackInput(r, byte, timestamp, is_special) ==
    IF byte \in LineTerminators
    THEN LET cmd == Trim(r.current_input)
         IN  [r EXCEPT !.commands =
                          IF cmd # <<>> /\ cmd # ExitWord
                          THEN Append(@, [timestamp |-> timestamp, command |-> cmd])
                          ELSE @,
                       !.current_input = <<>>]
    ELSE IF byte = 127 \/ byte = 8
    THEN [r EXCEPT !.current_input = PopLast(@)]
    ELSE IF byte >= 32 /\ byte < 127 /\ ~is_special
    THEN [r EXCEPT !.current_input = Append(@, byte)]
    ELSE r

\* ProcessByte that puts the new event in front of the vector
ProcessByteNewestFirst(r, byte, timestamp, now) ==
    LET key == DecodeKey(byte)
        checked == IF ~key.special /\ byte >= 32 /\ byte < 127
                   THEN CheckPaste(r.recent, now, 1)
                   ELSE [paste |-> FALSE, recent |-> r.recent]
        tracked == TrackInput([r EXCEPT !.recent = checked.recent],
                              byte, timestamp, key.special)
    IN  [tracked EXCEPT !.keystrokes =
            <<[timestamp |-> timestamp,
                       key_code  |-> byte,
                       key_name  |-> key.name,
                       raw_bytes |-> <<byte>>,
                       is_paste  |-> checked.paste]>> \o @]

\* the body of the loop over the bytes of a chunk
ProcessByte(r, byte, timestamp, now) ==
    LET key == DecodeKey(byte)
        checked == IF ~key.special /\ byte >= 32 /\ byte < 127
                   THEN CheckPaste(r.recent, now, 1)
                   ELSE [paste |-> FALSE, recent |-> r.recent]
        tracked == TrackInput([r EXCEPT !.recent = checked.recent],
                              byte, timestamp, key.special)
    IN  [tracked EXCEPT !.keystrokes =
            Append(@, [timestamp |-> timestamp,
                       key_code  |-> byte,
                       key_name  |-> key.name,
                       raw_bytes |-> <<byte>>,
                       is_paste  |-> checked.paste])]

\* for &byte in data: the bytes in order, the first half of the chunk before
\* the second.  Every byte pushes an event, so the test on the keystrokes is
\* always true: it has the first half evaluated before the second begins.
RECURSIVE ProcessInput(_, _, _, _)
ProcessInput(r, data, timestamp, now) ==
    IF data = <<>> THEN r
    ELSE IF Len(data) = 1 THEN ProcessByte(r, data[1], timestamp, now)
    ELSE LET half == Len(data) \div 2
             first == ProcessInput(r, SubSeq(data, 1, half), timestamp, now)
         IN  IF first.keystrokes # <<>>
             THEN ProcessInput(first, SubSeq(data, half + 1, Len(data)),
                               timestamp, now)
             ELSE first

\* ASCII lower case
RECURSIVE ToLower(_)
ToLower(s) ==
    IF s = <<>> THEN s
    ELSE <<IF Head(s) >= 65 /\ Head(s) <= 90 THEN Head(s) + 32 ELSE Head(s)>>
         \o ToLower(Tail(s))

\* should_exit comparing without regard to case
ShouldExitIgnoreCase(current_input) == ToLower(Trim(current_input)) = ExitWord

\* Recorder::should_exit
ShouldExit(current_input) == Trim(current_input) = ExitWord

\* the exit test made as each byte is classified, not once after the chunk
ExitDecisionPerByte(before, data, timestamp, now) ==
    \E k \in 1..Len(data) :
        ShouldExit(ProcessInput(before, SubSeq(data, 1, k), timestamp, now).current_input)

\* the stdin branch after a read of data: process_input(data), then, once
\* the chunk is forwarded, should_exit on what process_input left
ExitDecision(before, data, timestamp, now) ==
    ShouldExit(ProcessInput(before, data, timestamp, now).current_input)


\* CountPaste that counts every event
CountPasteAll(keystrokes) == Len(keystrokes)

\* Recorder::generate_summary
CountNamed(keystrokes, name) ==
    Cardinality({k \in 1..Len(keystrokes) : keystrokes[k].key_name = name})

CountPaste(keystrokes) ==
    Cardinality({k \in 1..Len(keystrokes) : keystrokes[k].is_paste})

\* the sum over the events, the first half of the vector and then the second
RECURSIVE PastedChars(_)
PastedChars(keystrokes) ==
    IF keystrokes = <<>> THEN 0
    ELSE IF Len(keystrokes) = 1
    THEN (IF keystrokes[1].is_paste THEN Len(keystrokes[1].raw_bytes) ELSE 0)
    ELSE LET half == Len(keystrokes) \div 2
         IN  PastedChars(SubSeq(keystrokes, 1, half))
                + PastedChars(SubSeq(keystrokes, half + 1, Len(keystrokes)))

GenerateSummary(ks, cmds) ==
    [total_keystrokes   |-> Len(ks),
     enter_pressed      |-> CountNamed(ks, NameEnter),
     backspace_used     |-> CountNamed(ks, NameBackspace),
     delete_used        |-> CountNamed(ks, NameDelete),
     paste_events       |-> CountPaste(ks),
     total_pasted_chars |-> PastedChars(ks),
     commands_executed  |-> Len(cmds)]

(***************************************************************************)
(* The session counter, state.rs.  Option<u64> is <<>> for None and <<t>>  *)
(* for Some(t).  Sha256 is an ideal hash: equal digests, equal data.       *)
(***************************************************************************)
Sha256(data) == [digest_of |-> data]

\* calculate_checksum
CalculateChecksum(data) == Sha256(data)

\* State { run_counter: 0, last_run_time: None }
FreshState == [run_counter |-> 0, last_run_time |-> <<>>]

\* serde_json::to_vec(self): a payload that parses back to the same State
ToJson(st) == [parses |-> TRUE, run_counter |-> st.run_counter,
               last_run_time |-> st.last_run_time]

\* serde_json::from_slice
FromJson(json) ==
    IF json.parses
    THEN [ok |-> TRUE, err |-> "none",
          val |-> [run_counter |-> json.run_counter,
                   last_run_time |-> json.last_run_time]]
    ELSE [ok |-> FALSE, err |-> "Failed to parse state JSON", val |-> FreshState]

\* no file at $HOME/.exam-recorder/state.json.enc
NoFile ==
    [exists |-> FALSE, mode |-> 0, has_nonce |-> FALSE, tag_ok |-> FALSE,
     has_checksum |-> FALSE, json |-> ToJson(FreshState),
     checksum |-> Sha256(ToJson(FreshState))]

\* encrypt_state over json || checksum, as the bytes on disk
EncryptState(json, checksum) ==
    [has_nonce |-> TRUE, tag_ok |-> TRUE, has_checksum |-> TRUE,
     json |-> json, checksum |-> checksum]

\* decrypt_state: the plaintext, or the error
DecryptState(f) ==
    IF ~f.has_nonce THEN [ok |-> FALSE, err |-> "Invalid encrypted data length"]
    ELSE IF ~f.tag_ok THEN [ok |-> FALSE, err |-> "Decryption failed"]
    ELSE [ok |-> TRUE, err |-> "none"]

\* split_checksum: data.len() < 32 is an error
SplitChecksum(f) ==
    IF ~f.has_checksum THEN [ok |-> FALSE, err |-> "Invalid state data length"]
    ELSE [ok |-> TRUE, err |-> "none"]

\* verify_checksum accepting every digest
VerifyChecksumSkipped(data, expected) == TRUE

\* verify_checksum
VerifyChecksum(data, expected) == CalculateChecksum(data) = expected

\* whether the user running the recorder may open the file for reading
\* (owner-read bit 0o400; a privileged user passes every permission check)
CanRead(f, privileged) == privileged \/ (f.mode \div 256) % 2 = 1

\* whether the user may open the file for writing (owner-write bit 0o200)
CanWrite(f, privileged) == privileged \/ (f.mode \div 128) % 2 = 1

\* State::load starting over from zero when the file cannot be used
StateLoadSilentReset(f, privileged) ==
    [ok |-> TRUE, err |-> "none",
     val |-> IF f.exists /\ CanRead(f, privileged) /\ DecryptState(f).ok
                /\ SplitChecksum(f).ok /\ VerifyChecksum(f.json, f.checksum)
                /\ FromJson(f.json).ok
             THEN FromJson(f.json).val
             ELSE FreshState]

\* State::load
StateLoad(f, privileged) ==
    IF ~f.exists THEN [ok |-> TRUE, err |-> "none", val |-> FreshState]
    ELSE IF ~CanRead(f, privileged)
    THEN [ok |-> FALSE, err |-> "Failed to read state file", val |-> FreshState]
    ELSE IF ~DecryptState(f).ok
    THEN [ok |-> FALSE, err |-> DecryptState(f).err, val |-> FreshState]
    ELSE IF ~SplitChecksum(f).ok
    THEN [ok |-> FALSE, err |-> SplitChecksum(f).err, val |-> FreshState]
    ELSE IF ~VerifyChecksum(f.json, f.checksum)
    THEN [ok |-> FALSE,
          err |-> "State checksum verification failed - possible tampering",
          val |-> FreshState]
    ELSE FromJson(f.json)

\* increment_counter adding two
IncrementCounterTwice(st, now_secs) ==
    [run_counter |-> st.run_counter + 2, last_run_time |-> <<now_secs>>]

\* State::increment_counter
IncrementCounter(st, now_secs) ==
    [run_counter |-> st.run_counter + 1, last_run_time |-> <<now_secs>>]

\* State::save: the file left on disk, or the error
StateSave(st, f, privileged) ==
    IF f.exists /\ ~CanWrite(f, privileged)
    THEN [ok |-> FALSE, err |-> "Failed to write state file", file |-> f]
    ELSE LET json == ToJson(st)
             enc == EncryptState(json, CalculateChecksum(json))
         IN  [ok |-> TRUE, err |-> "none",
              file |-> [exists |-> TRUE, mode |-> StateFileMode,
                        has_nonce |-> enc.has_nonce, tag_ok |-> enc.tag_ok,
                        has_checksum |-> enc.has_checksum, json |-> enc.json,
                        checksum |-> enc.checksum]]

\* Metadata::new with the counter as it was before the increment
MetadataNewBeforeIncrement(run_counter, now_secs) ==
    [run_counter |-> run_counter - 1, start_time |-> now_secs,
     end_time |-> <<>>, duration_seconds |-> <<>>]

\* Metadata::new
MetadataNew(run_counter, now_secs) ==
    [run_counter |-> run_counter, start_time |-> now_secs,
     end_time |-> <<>>, duration_seconds |-> <<>>]

\* Metadata::finalize; saturating_sub
MetadataFinalize(m, now_secs) ==
    [m EXCEPT !.end_time = <<now_secs>>,
              !.duration_seconds = <<Max(now_secs - m.start_time, 0)>>]

\* SystemTime::now() in seconds, from the millisecond clock
Secs(ms) == ms \div 1000


(***************************************************************************)
(* The envelopes, encryption.rs of the recorder and decryptor.rs of the    *)
(* viewer.  AES-256-GCM is an ideal cipher: a byte of a ciphertext is an   *)
(* opaque block that names its position, and the 16 bytes of the tag bind  *)
(* the key, the nonce and the plaintext, which the first of them carries:  *)
(* only the key and the nonce that sealed an envelope open it.  A nonce is *)
(* 12 equal bytes drawn from a seed.                                       *)
(***************************************************************************)
NonceLen == 12
TagLen == 16
KdfIterations == 100000
ViewerKdfIterations == 100000

InstructorPassword == "instructor_password_change_me"

\* derive_key_from_password of the recorder
RecorderDeriveKey(password) ==
    [prf |-> "hmac-sha256", salt |-> "exam-recorder-suite-salt-v1",
     iterations |-> KdfIterations, password |-> password]

\* derive_key_from_password of the viewer, with another salt
ViewerDeriveKeyOtherSalt(password) ==
    [prf |-> "hmac-sha256", salt |-> "exam-viewer-suite-salt-v1",
     iterations |-> ViewerKdfIterations, password |-> password]

\* derive_key_from_password of the viewer
ViewerDeriveKey(password) ==
    [prf |-> "hmac-sha256", salt |-> "exam-recorder-suite-salt-v1",
     iterations |-> ViewerKdfIterations, password |-> password]

\* derive_state_key: SHA-256 of the host name, the user name and a salt
DeriveStateKey ==
    [prf |-> "sha256", salt |-> "exam-recorder-state-key-v1",
     hostname |-> "host", user |-> "user"]

\* what the random generator may draw for a nonce
NonceSeeds == {0, 1}

\* rand::thread_rng().fill_bytes(&mut nonce_bytes)
NonceBytes(seed) == [k \in 1..NonceLen |-> [nonce_byte |-> seed]]

\* Nonce::from_slice: the seed of 12 equal nonce bytes, -1 for other bytes
NonceFromSlice(bytes) ==
    IF \A k \in 1..Len(bytes) :
          DOMAIN bytes[k] = {"nonce_byte"} /\ bytes[k] = bytes[1]
    THEN bytes[1].nonce_byte
    ELSE -1

\* the tag of a plaintext under a key and a nonce
AesGcmTag(key, nonce, data) ==
    [k \in 1..TagLen |->
        IF k = 1 THEN [tag |-> k, key |-> key, nonce |-> nonce, of |-> data]
        ELSE [tag |-> k]]

\* cipher.encrypt(nonce, data): the ciphertext with the tag appended
AesGcmEncrypt(key, nonce, data) ==
    [k \in 1..Len(data) |-> [ct |-> k]] \o AesGcmTag(key, nonce, data)

\* the plaintext a ciphertext of n bytes and a tag was made from, <<>> when
\* the first byte of the tag is not one
TagData(ciphertext, n) ==
    IF DOMAIN ciphertext[n + 1] = {"tag", "key", "nonce", "of"}
    THEN ciphertext[n + 1].of
    ELSE <<>>

\* the bytes are what cipher.encrypt returns for some plaintext under this
\* key and nonce
TagVerifies(key, nonce, ciphertext) ==
    LET n == Len(ciphertext) - TagLen
    IN  /\ Len(TagData(ciphertext, n)) = n
        /\ ciphertext = AesGcmEncrypt(key, nonce, TagData(ciphertext, n))

\* AesGcmDecrypt that does not verify the tag
AesGcmDecryptUnchecked(key, nonce, ciphertext) ==
    IF Len(ciphertext) < TagLen
    THEN [ok |-> FALSE, plain |-> <<>>]
    ELSE [ok |-> TRUE, plain |-> TagData(ciphertext, Len(ciphertext) - TagLen)]

\* AesGcmDecrypt that takes a ciphertext too short for a tag as empty
AesGcmDecryptNoTag(key, nonce, ciphertext) ==
    IF Len(ciphertext) < TagLen
    THEN [ok |-> TRUE, plain |-> <<>>]
    ELSE IF TagVerifies(key, nonce, ciphertext)
    THEN [ok |-> TRUE, plain |-> TagData(ciphertext, Len(ciphertext) - TagLen)]
    ELSE [ok |-> FALSE, plain |-> <<>>]

\* cipher.decrypt(nonce, ciphertext): an error unless the tag is there and
\* is the tag of the body under this key and nonce
AesGcmDecrypt(key, nonce, ciphertext) ==
    IF Len(ciphertext) < TagLen
    THEN [ok |-> FALSE, plain |-> <<>>]
    ELSE IF TagVerifies(key, nonce, ciphertext)
    THEN [ok |-> TRUE, plain |-> TagData(ciphertext, Len(ciphertext) - TagLen)]
    ELSE [ok |-> FALSE, plain |-> <<>>]

\* the envelope: the nonce, then the ciphertext with its tag
SealEnvelope(key, seed, data) == NonceBytes(seed) \o AesGcmEncrypt(key, seed, data)

\* the body shared by decrypt_file (both tools) and decrypt_state
OpenEnvelope(key, encrypted) ==
    IF Len(encrypted) < NonceLen
    THEN [ok |-> FALSE, err |-> "Invalid encrypted data length", val |-> <<>>]
    ELSE LET nonce == NonceFromSlice(SubSeq(encrypted, 1, NonceLen))
             decrypted == AesGcmDecrypt(key, nonce,
                                        SubSeq(encrypted, NonceLen + 1, Len(encrypted)))
         IN  IF decrypted.ok
             THEN [ok |-> TRUE, err |-> "none", val |-> decrypted.plain]
             ELSE [ok |-> FALSE, err |-> "Decryption failed", val |-> <<>>]

\* encryption.rs: encrypt_file, decrypt_file
RecorderEncryptFile(data, password, seed) ==
    SealEnvelope(RecorderDeriveKey(password), seed, data)

RecorderDecryptFile(encrypted, password) ==
    OpenEnvelope(RecorderDeriveKey(password), encrypted)

\* decryptor.rs: decrypt_file
ViewerDecryptFile(encrypted, password) ==
    OpenEnvelope(ViewerDeriveKey(password), encrypted)

\* state.rs: encrypt_state and decrypt_state on the bytes of the file
EncryptStateBytes(data, seed) == SealEnvelope(DeriveStateKey, seed, data)

DecryptStateBytes(encrypted) == OpenEnvelope(DeriveStateKey, encrypted)

(***************************************************************************)
(* The artifact: Recorder::finalize packs it, the viewer reads it.  A JSON *)
(* text is one block of bytes that names the value it was written from and *)
(* the style it was written in; the hex text of a digest is one block that *)
(* names the digest; a white-space byte next to a block is a block too.    *)
(* The data of an archive is the sequence of its members.                  *)
(***************************************************************************)
\* Serialize of a Vec and of a struct
JsonArray(items) == [kind |-> "array", items |-> items]

JsonObject(fields) == [kind |-> "object", fields |-> fields]

\* an empty array is written as [] in both styles
IsEmptyArray(value) == value.kind = "array" /\ Len(value.items) = 0

\* serde_json::to_string_pretty(..).as_bytes()
ToStringPretty(value) ==
    <<[json |-> value, style |-> IF IsEmptyArray(value) THEN "plain" ELSE "pretty"]>>

\* Value::to_string(): the compact text
ValueToString(value) ==
    <<[json |-> value, style |-> IF IsEmptyArray(value) THEN "plain" ELSE "compact"]>>

\* serde_json::from_slice into a Value
ValueFromSlice(bytes) ==
    IF Len(bytes) = 1 /\ DOMAIN bytes[1] = {"json", "style"}
    THEN [ok |-> TRUE, val |-> bytes[1].json]
    ELSE [ok |-> FALSE, val |-> JsonArray(<<>>)]

\* hex::encode(hasher.finalize())
HexEncode(digest) == <<[hex |-> digest]>>

\* calculate_file_hash
CalculateFileHash(data) == HexEncode(Sha256(data))

IsSpaceBlock(cell) == DOMAIN cell = {"ws"}

\* str::trim on a text of blocks
RECURSIVE TrimBlocks(_)
TrimBlocks(text) ==
    IF text = <<>> THEN <<>>
    ELSE IF IsSpaceBlock(text[1]) THEN TrimBlocks(Tail(text))
    ELSE IF IsSpaceBlock(text[Len(text)]) THEN TrimBlocks(SubSeq(text, 1, Len(text) - 1))
    ELSE text

\* U+FFFD in UTF-8
ReplacementChar == <<239, 191, 189>>

IsContinuation(b) == b >= 128 /\ b <= 191

\* String::from_utf8_lossy(..).to_string() as the bytes of the String, for
\* bytes below 224: an ASCII byte and a two-byte sequence are kept, every
\* other byte is replaced by U+FFFD
RECURSIVE Utf8Lossy(_)
Utf8Lossy(bytes) ==
    IF bytes = <<>> THEN <<>>
    ELSE IF bytes[1] < 128 THEN <<bytes[1]>> \o Utf8Lossy(Tail(bytes))
    ELSE IF /\ bytes[1] >= 194 /\ bytes[1] <= 223
            /\ Len(bytes) >= 2 /\ IsContinuation(bytes[2])
         THEN <<bytes[1], bytes[2]>> \o Utf8Lossy(SubSeq(bytes, 3, Len(bytes)))
    ELSE ReplacementChar \o Utf8Lossy(Tail(bytes))

\* the literal names of the members
NameEvents == "events.json.enc"
NameSummary == "summary.json.enc"
NameMetadata == "metadata.json.enc"
NameTerminalOutput == "terminal_output.log.enc"
NameStateCopy == "state_copy.json.enc"
NameIntegrity == "integrity.sha256"

EncNames == {NameEvents, NameSummary, NameMetadata, NameTerminalOutput, NameStateCopy}

\* the nonce of the k-th call of encrypt_file in a run of finalize
NonceOf(seed, k) == 6 * seed + k

\* the five payloads of Recorder::finalize, as the bytes it encrypts
PayloadBytes(ks, summary, md, output, st) ==
    [events          |-> ToStringPretty(JsonArray(ks)),
     summary         |-> ToStringPretty(JsonObject(summary)),
     metadata        |-> ToStringPretty(JsonObject(md)),
     terminal_output |-> output,
     state_copy      |-> ToStringPretty(JsonObject(st))]

\* Recorder::finalize: the members of the archive
ZipFiles(payload, seed) ==
    LET events_enc   == RecorderEncryptFile(payload.events, InstructorPassword, NonceOf(seed, 1))
        summary_enc  == RecorderEncryptFile(payload.summary, InstructorPassword, NonceOf(seed, 2))
        metadata_enc == RecorderEncryptFile(payload.metadata, InstructorPassword, NonceOf(seed, 3))
        terminal_output_enc ==
            RecorderEncryptFile(payload.terminal_output, InstructorPassword, NonceOf(seed, 4))
        state_copy_enc ==
            RecorderEncryptFile(payload.state_copy, InstructorPassword, NonceOf(seed, 5))
        integrity_data == events_enc \o summary_enc \o metadata_enc
                              \o terminal_output_enc \o state_copy_enc
    IN  <<[name |-> NameEvents, contents |-> events_enc],
          [name |-> NameSummary, contents |-> summary_enc],
          [name |-> NameMetadata, contents |-> metadata_enc],
          [name |-> NameTerminalOutput, contents |-> terminal_output_enc],
          [name |-> NameStateCopy, contents |-> state_copy_enc],
          [name |-> NameIntegrity, contents |-> CalculateFileHash(integrity_data)]>>

\* create_password_protected_zip: the archive, encrypted as a whole
CreatePasswordProtectedZip(files, password, seed) ==
    RecorderEncryptFile(files, password, seed)

\* the bytes Recorder::finalize writes to the artifact file
PackArtifact(payload, seed) ==
    CreatePasswordProtectedZip(ZipFiles(payload, seed), InstructorPassword, NonceOf(seed, 6))

\* zip::ZipArchive::new: the members, or an error for bytes that are no archive
OpenArchive(zip_data) ==
    IF \A k \in 1..Len(zip_data) : DOMAIN zip_data[k] = {"name", "contents"}
    THEN [ok |-> TRUE, members |-> zip_data]
    ELSE [ok |-> FALSE, members |-> <<>>]

\* the indices of the members of a name
IndicesOf(members, name) == {k \in 1..Len(members) : members[k].name = name}

SetMax(S) == CHOOSE k \in S : \A j \in S : j <= k

\* the contents a loop over the members leaves for a name: the last one
LastOf(members, name) ==
    IF IndicesOf(members, name) = {} THEN <<>>
    ELSE members[SetMax(IndicesOf(members, name))].contents

\* Decryptor::decrypt
DecryptorDecrypt(encrypted_zip, password) ==
    LET Failed(message) == [ok |-> FALSE, err |-> message]
        zip_data == ViewerDecryptFile(encrypted_zip, password)
        archive == OpenArchive(zip_data.val)
        members == archive.members
        Plain(k) == ViewerDecryptFile(members[k].contents, password)
        Json(name) == ValueFromSlice(ViewerDecryptFile(LastOf(members, name), password).val)
        JsonNames == {NameEvents, NameSummary, NameMetadata, NameStateCopy}
    IN  IF ~zip_data.ok THEN Failed("Failed to decrypt ZIP file")
        ELSE IF ~archive.ok THEN Failed("Failed to open ZIP archive")
        ELSE IF \E k \in 1..Len(members) : members[k].name \in EncNames /\ ~Plain(k).ok
        THEN Failed("Decryption failed")
        ELSE IF \E k \in 1..Len(members) :
                   members[k].name \in JsonNames /\ ~ValueFromSlice(Plain(k).val).ok
        THEN Failed("JSON")
        ELSE IF IndicesOf(members, NameEvents) = {} THEN Failed("Missing events.json.enc")
        ELSE IF IndicesOf(members, NameSummary) = {} THEN Failed("Missing summary.json.enc")
        ELSE IF IndicesOf(members, NameMetadata) = {} THEN Failed("Missing metadata.json.enc")
        ELSE IF IndicesOf(members, NameTerminalOutput) = {}
        THEN Failed("Missing terminal_output.log.enc")
        ELSE IF IndicesOf(members, NameStateCopy) = {}
        THEN Failed("Missing state_copy.json.enc")
        ELSE IF IndicesOf(members, NameIntegrity) = {} THEN Failed("Missing integrity.sha256")
        ELSE [ok |-> TRUE, err |-> "none",
              events |-> Json(NameEvents).val,
              summary |-> Json(NameSummary).val,
              metadata |-> Json(NameMetadata).val,
              terminal_output |->
                  Utf8Lossy(ViewerDecryptFile(LastOf(members, NameTerminalOutput), password).val),
              state_copy |-> Json(NameStateCopy).val,
              integrity_hash |-> TrimBlocks(LastOf(members, NameIntegrity))]

\* the contents of the members whose name ends with ".enc", in the order of
\* the archive
RECURSIVE EncryptedFiles(_)
EncryptedFiles(members) ==
    IF members = <<>> THEN <<>>
    ELSE (IF members[1].name \in EncNames THEN members[1].contents ELSE <<>>)
             \o EncryptedFiles(Tail(members))

\* Decryptor::verify_integrity that takes a mismatch for an error
DecryptorVerifyIntegrityStrict(encrypted_zip, password) ==
    LET zip_data == ViewerDecryptFile(encrypted_zip, password)
        archive == OpenArchive(zip_data.val)
        members == archive.members
    IN  IF ~zip_data.ok THEN [ok |-> FALSE, err |-> "Failed to decrypt ZIP file", val |-> FALSE]
        ELSE IF ~archive.ok
        THEN [ok |-> FALSE, err |-> "Failed to open ZIP archive", val |-> FALSE]
        ELSE IF IndicesOf(members, NameIntegrity) = {}
        THEN [ok |-> FALSE, err |-> "Missing integrity.sha256", val |-> FALSE]
        ELSE IF HexEncode(Sha256(EncryptedFiles(members)))
                    # TrimBlocks(LastOf(members, NameIntegrity))
        THEN [ok |-> FALSE, err |-> "Integrity mismatch", val |-> FALSE]
        ELSE [ok |-> TRUE, err |-> "none", val |-> TRUE]

\* Decryptor::verify_integrity
DecryptorVerifyIntegrity(encrypted_zip, password) ==
    LET zip_data == ViewerDecryptFile(encrypted_zip, password)
        archive == OpenArchive(zip_data.val)
        members == archive.members
    IN  IF ~zip_data.ok THEN [ok |-> FALSE, err |-> "Failed to decrypt ZIP file", val |-> FALSE]
        ELSE IF ~archive.ok
        THEN [ok |-> FALSE, err |-> "Failed to open ZIP archive", val |-> FALSE]
        ELSE IF IndicesOf(members, NameIntegrity) = {}
        THEN [ok |-> FALSE, err |-> "Missing integrity.sha256", val |-> FALSE]
        ELSE [ok |-> TRUE, err |-> "none",
              val |-> HexEncode(Sha256(EncryptedFiles(members)))
                          = TrimBlocks(LastOf(members, NameIntegrity))]

\* Analyzer::verify_integrity: the hash of the decrypted data, written again
AnalyzerVerifyIntegrity(data) ==
    HexEncode(Sha256(ValueToString(data.events) \o ValueToString(data.summary)
                         \o ValueToString(data.metadata) \o data.terminal_output
                         \o ValueToString(data.state_copy)))
        = data.integrity_hash

\* Analyzer::detect_suspicious_activities
RECURSIVE DetectSuspiciousActivities(_)
DetectSuspiciousActivities(events) ==
    IF events = <<>> THEN <<>>
    ELSE (IF events[1].is_paste
          THEN <<[timestamp |-> events[1].timestamp,
                  chars |-> Len(events[1].raw_bytes),
                  severity |-> IF Len(events[1].raw_bytes) > 100 THEN "HIGH" ELSE "MEDIUM"]>>
          ELSE <<>>) \o DetectSuspiciousActivities(Tail(events))

\* Analyzer::analyze, the loop that extracts the commands from the events
RECURSIVE ExtractCommands(_, _, _)
ExtractCommands(events, current_command, found) ==
    IF events = <<>> THEN found
    ELSE LET event == events[1]
             b == event.raw_bytes[1]
         IN  IF event.key_name = NameEnter
             THEN IF Trim(current_command) # <<>>
                  THEN ExtractCommands(Tail(events), <<>>,
                                       Append(found, Trim(current_command)))
                  ELSE ExtractCommands(Tail(events), current_command, found)
             ELSE IF b >= 32 /\ b < 127
                  THEN ExtractCommands(Tail(events), Append(current_command, b), found)
             ELSE IF (b = 127 \/ b = 8) /\ current_command # <<>>
                  THEN ExtractCommands(Tail(events),
                                       SubSeq(current_command, 1, Len(current_command) - 1),
                                       found)
             ELSE ExtractCommands(Tail(events), current_command, found)

\* Analyzer::analyze
AnalyzerAnalyze(data) ==
    [recorder_runs_before |-> Max(data.metadata.fields.run_counter - 1, 0),
     total_keystrokes   |-> data.summary.fields.total_keystrokes,
     enter_pressed      |-> data.summary.fields.enter_pressed,
     backspace_used     |-> data.summary.fields.backspace_used,
     paste_events       |-> data.summary.fields.paste_events,
     total_pasted_chars |-> data.summary.fields.total_pasted_chars,
     commands           |-> ExtractCommands(data.events.items, <<>>, <<>>),
     suspicious_activities |-> DetectSuspiciousActivities(data.events.items),
     integrity_passed   |-> AnalyzerVerifyIntegrity(data)]

(***************************************************************************)
(* The state of the machine and of the recorder process.                   *)
(***************************************************************************)
VARIABLES
    file,              \* $HOME/.exam-recorder/state.json.enc
    privileged,        \* whether the user passes permission checks (root)
    termios,           \* the attributes of the user's terminal: "cooked" or "raw"
    clock,             \* milliseconds
    runs,              \* recorder processes started so far
    started,           \* per successful Recorder::new: the counter it recorded
    pristine,          \* nothing but the recorder has touched the state file
    pc,                \* where the recorder process is
    exitCode,          \* the exit code of the process, once exited
    err,               \* the error reported on stderr
    state,             \* Recorder.state
    loaded,            \* the run_counter State::load returned to this process
    metadata,          \* Recorder.metadata
    keystrokes,        \* Recorder.keystrokes
    commands,          \* Recorder.commands
    terminal_output,   \* Recorder.terminal_output
    current_input,     \* Recorder.current_input
    recent_keystrokes, \* Recorder.paste_detector.recent_keystrokes
    original_termios,  \* what set_raw_mode returned, "none" before
    result,            \* the value the relay loop broke with
    exitReason,        \* the break the relay loop left by
    io,                \* what the system calls of this loop iteration returned
    shell,             \* the child: "none", "running", "exited", "reaped"
    script,            \* what the user is still going to type
    typed,             \* what the user has typed
    tty,               \* typed and not yet read from stdin
    forwarded,         \* the bytes written to the PTY master
    ptyOut,            \* written by the shell and not yet read from the master
    shown,             \* the bytes written to the real stdout
    artifact,          \* the artifact file last written
    nArtifacts,        \* how many times an artifact was written
    pace,              \* milliseconds from one read of stdin to the next
    chunkSize,         \* how many bytes a read of stdin returns at most
    decoded,           \* what decode_key returned for the bytes of a paced read
    secret,            \* the bytes handed to an encrypt function
    sealedWith,        \* the key they were encrypted under: a password or the state key
    envelope,          \* the encrypted bytes, as they reach a decrypt function
    opened,            \* what the decrypt functions returned for the envelope
    zipFile,           \* the bytes of the artifact file on disk
    viewed,            \* what Decryptor::decrypt returned to the viewer
    verified,          \* what Decryptor::verify_integrity returned
    report             \* the AnalysisReport of the viewer

envVars == <<file, privileged, pristine>>
recVars == <<keystrokes, commands, current_input, recent_keystrokes>>
ptyVars == <<shell, forwarded, ptyOut, shown, terminal_output>>
userVars == <<script, typed, tty>>
procVars == <<state, loaded, metadata, original_termios, result, exitReason>>
outVars == <<artifact, nArtifacts>>
typingVars == <<pace, chunkSize, decoded>>
cryptoVars == <<secret, sealedWith, envelope, opened>>
viewerVars == <<zipFile, viewed, verified, report>>
auxVars == <<typingVars, cryptoVars, viewerVars>>

vars == <<file, privileged, termios, clock, runs, started, pristine, pc, exitCode,
          err, state, loaded, metadata, keystrokes, commands, terminal_output,
          current_input, recent_keystrokes, original_termios, result, exitReason,
          io, shell, script, typed, tty, forwarded, ptyOut, shown, artifact,
          nArtifacts, pace, chunkSize, decoded, secret, sealedWith, envelope,
          opened, zipFile, viewed, verified, report>>

\* no system call made yet in this iteration
IoNone == [poll |-> "none", stdin_ready |-> FALSE, master_ready |-> FALSE,
           stdin |-> "none", forward |-> "none", master |-> "none",
           stdout |-> "none"]

NoMetadata == [run_counter |-> 0, start_time |-> 0, end_time |-> <<>>,
               duration_seconds |-> <<>>]

NoArtifact == [written |-> FALSE, events |-> <<>>, commands |-> <<>>,
               summary |-> GenerateSummary(<<>>, <<>>), metadata |-> NoMetadata,
               terminal_output |-> <<>>, state_copy |-> FreshState]

\* nothing encrypted or decrypted yet
NoCrypto ==
    /\ secret = <<>>
    /\ sealedWith = "none"
    /\ envelope = <<>>
    /\ opened = [password |-> "none"]

\* no artifact file on disk, the viewer not run
NoViewer ==
    /\ zipFile = <<>>
    /\ viewed = [ran |-> FALSE]
    /\ verified = [ran |-> FALSE]
    /\ report = [ran |-> FALSE]

\* a session whose reads of stdin are not paced
NoTyping ==
    /\ pace = 0
    /\ chunkSize = BufSize
    /\ decoded = <<>>

\* only the recorder runs
ToolsIdle == NoTyping /\ NoCrypto /\ NoViewer

\* the loop of record_from_master
LoopPcs == {"poll", "stdin", "master"}

\* between fork and the return of Recorder::start
ForkedPcs == {"forked", "poll", "stdin", "master", "restore", "finalize", "waitpid"}

\* what the user types in a session of the life-cycle specification: Enter
RunScripts == {<<10>>}

\* the fields of a recorder process before Recorder::new
ProcessInit ==
    /\ pc = "idle"
    /\ exitCode = ExitSuccess
    /\ err = "none"
    /\ state = FreshState
    /\ loaded = 0
    /\ metadata = NoMetadata
    /\ keystrokes = <<>>
    /\ commands = <<>>
    /\ terminal_output = <<>>
    /\ current_input = <<>>
    /\ recent_keystrokes = <<>>
    /\ original_termios = "none"
    /\ result = "none"
    /\ exitReason = "none"
    /\ io = IoNone
    /\ shell = "none"
    /\ typed = <<>>
    /\ tty = <<>>
    /\ forwarded = <<>>
    /\ ptyOut = <<>>
    /\ shown = <<>>

\* a machine on which the recorder never ran
MachineInit ==
    /\ file = NoFile
    /\ privileged \in BOOLEAN
    /\ termios = "cooked"
    /\ clock = 0
    /\ runs = 0
    /\ started = <<>>
    /\ pristine = TRUE
    /\ artifact = NoArtifact
    /\ nArtifacts = 0

Init ==
    /\ MachineInit
    /\ ProcessInit
    /\ ToolsIdle
    /\ script \in RunScripts


(***************************************************************************)
(* The process ends: main returns, or process::exit(1) after the error.    *)
(***************************************************************************)
ExitWith(code, message) ==
    /\ pc' = "exited"
    /\ exitCode' = code
    /\ err' = message

\* a Recorder::new that starts from a fresh counter when load or save fails
RecorderNewCarriesOn ==
    /\ pc = "idle"
    /\ runs < MaxRuns
    /\ runs' = runs + 1
    /\ LET ld == StateLoad(file, privileged)
           st == IncrementCounter(ld.val, Secs(clock))
           sv == StateSave(st, file, privileged)
       IN  /\ file' = IF ld.ok /\ sv.ok THEN sv.file ELSE file
           /\ state' = st
           /\ loaded' = ld.val.run_counter
           /\ metadata' = MetadataNew(st.run_counter, Secs(clock))
           /\ started' = Append(started, [run_counter |-> st.run_counter,
                                          fresh |-> ~file.exists])
           /\ pc' = "created"
           /\ UNCHANGED <<exitCode, err>>
    /\ UNCHANGED <<privileged, pristine, termios, clock, recVars, ptyVars, userVars,
                   original_termios, result, exitReason, io, outVars, auxVars>>

(***************************************************************************)
(* run_recorder, first line: Recorder::new.  State::load, increment,       *)
(* State::save, Metadata::new.                                             *)
(***************************************************************************)
RecorderNew ==
    /\ pc = "idle"
    /\ runs < MaxRuns
    /\ runs' = runs + 1
    /\ LET ld == StateLoad(file, privileged)
           st == IncrementCounter(ld.val, Secs(clock))
           sv == StateSave(st, file, privileged)
       IN  IF ~ld.ok
           THEN /\ ExitWith(ExitFailure, ld.err)
                /\ UNCHANGED <<file, state, loaded, metadata, started>>
           ELSE IF ~sv.ok
           THEN /\ ExitWith(ExitFailure, sv.err)
                /\ UNCHANGED <<file, state, loaded, metadata, started>>
           ELSE /\ file' = sv.file
                /\ state' = st
                /\ loaded' = ld.val.run_counter
                /\ metadata' = MetadataNew(st.run_counter, Secs(clock))
                /\ started' = Append(started, [run_counter |-> st.run_counter,
                                               fresh |-> ~file.exists])
                /\ pc' = "created"
                /\ UNCHANGED <<exitCode, err>>
    /\ UNCHANGED <<privileged, pristine, termios, clock, recVars, ptyVars, userVars,
                   original_termios, result, exitReason, io, outVars, auxVars>>

(***************************************************************************)
(* Recorder::start: openpty and fork.  The parent closes the slave and     *)
(* calls record_from_master; the child becomes the shell.                  *)
(***************************************************************************)
StartFork ==
    /\ pc = "created"
    /\ pc' = "forked"
    /\ shell' = "running"
    /\ UNCHANGED <<envVars, termios, clock, runs, started, exitCode, err, procVars,
                   recVars, io, userVars, forwarded, ptyOut, shown, terminal_output,
                   outVars, auxVars>>

\* openpty or fork returns an error
StartFails ==
    /\ pc = "created"
    /\ \E message \in {"Failed to create PTY", "Fork failed"} :
          ExitWith(ExitFailure, message)
    /\ UNCHANGED <<envVars, termios, clock, runs, started, procVars, recVars, io,
                   ptyVars, userVars, outVars, auxVars>>

(***************************************************************************)
(* record_from_master, before the loop: set_raw_mode.                      *)
(***************************************************************************)
SetRawMode ==
    /\ pc = "forked"
    /\ original_termios' = termios
    /\ termios' = "raw"
    /\ pc' = "poll"
    /\ UNCHANGED <<envVars, clock, runs, started, exitCode, err, state, loaded,
                   metadata, result, exitReason, recVars, io, ptyVars, userVars,
                   outVars, auxVars>>

\* Termios::from_fd or tcsetattr fails: the error goes up through start
SetRawModeFails ==
    /\ pc = "forked"
    /\ ExitWith(ExitFailure, "termios")
    /\ UNCHANGED <<envVars, termios, clock, runs, started, procVars, recVars, io,
                   ptyVars, userVars, outVars, auxVars>>

(***************************************************************************)
(* The relay loop.  One iteration is poll, then the stdin branch, then the *)
(* master branch.                                                          *)
(***************************************************************************)
\* break with a value: the loop is left and the terminal is restored next
Break(value, reason) ==
    /\ pc' = "restore"
    /\ result' = value
    /\ exitReason' = reason

\* what poll may report for stdin: readable when bytes wait, or on a hang-up
StdinReadiness == IF tty # <<>> THEN {TRUE} ELSE {FALSE, TRUE}

\* what poll may report for the master: readable when output waits; once the
\* shell is gone, POLLIN with the hang-up or the hang-up alone
MasterReadiness ==
    IF ptyOut # <<>> THEN {TRUE}
    ELSE IF shell = "running" THEN {FALSE} ELSE {TRUE, FALSE}

\* a poll timeout that leaves the loop
PollTimeoutBreaks ==
    /\ pc = "poll"
    /\ tty = <<>> /\ ptyOut = <<>> /\ shell = "running"
    /\ io' = [IoNone EXCEPT !.poll = "timeout"]
    /\ Break("ok", "timeout")
    /\ UNCHANGED <<envVars, termios, clock, runs, started, exitCode, err, state,
                   loaded, metadata, original_termios, recVars, ptyVars, userVars,
                   outVars, auxVars>>

\* poll(&mut poll_fds, 100) returns 0
PollTimeout ==
    /\ pc = "poll"
    /\ tty = <<>> /\ ptyOut = <<>> /\ shell = "running"
    /\ io' = [IoNone EXCEPT !.poll = "timeout"]
    /\ UNCHANGED <<envVars, termios, clock, runs, started, pc, exitCode, err,
                   procVars, recVars, ptyVars, userVars, outVars, auxVars>>

\* an EINTR that is taken as any other error of poll
PollInterruptedBreaks ==
    /\ pc = "poll"
    /\ io' = [IoNone EXCEPT !.poll = "eintr"]
    /\ Break("err", "poll_error")
    /\ UNCHANGED <<envVars, termios, clock, runs, started, exitCode, err, state,
                   loaded, metadata, original_termios, recVars, ptyVars, userVars,
                   outVars, auxVars>>

\* poll returns Err(EINTR)
PollInterrupted ==
    /\ pc = "poll"
    /\ io' = [IoNone EXCEPT !.poll = "eintr"]
    /\ UNCHANGED <<envVars, termios, clock, runs, started, pc, exitCode, err,
                   procVars, recVars, ptyVars, userVars, outVars, auxVars>>

\* poll returns another error
PollError ==
    /\ pc = "poll"
    /\ io' = [IoNone EXCEPT !.poll = "error"]
    /\ Break("err", "poll_error")
    /\ UNCHANGED <<envVars, termios, clock, runs, started, exitCode, err, state,
                   loaded, metadata, original_termios, recVars, ptyVars, userVars,
                   outVars, auxVars>>

\* poll returns a positive number
PollReady ==
    /\ pc = "poll"
    /\ \E sr \in StdinReadiness, mr \in MasterReadiness :
          /\ sr \/ mr \/ shell # "running"
          /\ io' = [IoNone EXCEPT !.poll = "ready", !.stdin_ready = sr,
                                  !.master_ready = mr]
    /\ pc' = "stdin"
    /\ UNCHANGED <<envVars, termios, clock, runs, started, exitCode, err, procVars,
                   recVars, ptyVars, userVars, outVars, auxVars>>


\* the classifier's fields, as process_input takes and leaves them
Classifier ==
    [keystrokes |-> keystrokes, commands |-> commands,
     current_input |-> current_input, recent |-> recent_keystrokes]

SetClassifier(r) ==
    /\ keystrokes' = r.keystrokes
    /\ commands' = r.commands
    /\ current_input' = r.current_input
    /\ recent_keystrokes' = r.recent

\* revents of stdin holds no POLLIN
StdinSkip ==
    /\ pc = "stdin"
    /\ ~io.stdin_ready
    /\ pc' = "master"
    /\ UNCHANGED <<envVars, termios, clock, runs, started, exitCode, err, procVars,
                   recVars, io, ptyVars, userVars, outVars, auxVars>>

\* stdin.read returns Ok(0)
StdinEof ==
    /\ pc = "stdin"
    /\ io.stdin_ready
    /\ tty = <<>>
    /\ io' = [io EXCEPT !.stdin = "eof"]
    /\ Break("ok", "stdin_eof")
    /\ UNCHANGED <<envVars, termios, clock, runs, started, exitCode, err, state,
                   loaded, metadata, original_termios, recVars, ptyVars, userVars,
                   outVars, auxVars>>

\* stdin.read returns an error of kind WouldBlock
StdinWouldBlock ==
    /\ pc = "stdin"
    /\ io.stdin_ready
    /\ io' = [io EXCEPT !.stdin = "wouldblock"]
    /\ pc' = "master"
    /\ UNCHANGED <<envVars, termios, clock, runs, started, exitCode, err, procVars,
                   recVars, ptyVars, userVars, outVars, auxVars>>

\* stdin.read returns another error
StdinError ==
    /\ pc = "stdin"
    /\ io.stdin_ready
    /\ io' = [io EXCEPT !.stdin = "error"]
    /\ Break("err", "stdin_error")
    /\ UNCHANGED <<envVars, termios, clock, runs, started, exitCode, err, state,
                   loaded, metadata, original_termios, recVars, ptyVars, userVars,
                   outVars, auxVars>>

\* a stdin branch that reads again while input is waiting
StdinDataDrainsInput ==
    /\ pc = "stdin"
    /\ io.stdin_ready
    /\ tty # <<>>
    /\ \E n \in 1..Min(Len(tty), BufSize),
          fw \in (IF shell = "running" THEN {"ok"} ELSE {"ok", "write_error"}) :
          LET data == SubSeq(tty, 1, n)
              r == ProcessInput(Classifier, data, clock, clock)
          IN  /\ tty' = SubSeq(tty, n + 1, Len(tty))
              /\ SetClassifier(r)
              /\ io' = [io EXCEPT !.stdin = "data", !.forward = fw]
              /\ IF fw # "ok"
                 THEN /\ ExitWith(ExitFailure, "master write")
                      /\ UNCHANGED <<forwarded, result, exitReason>>
                 ELSE /\ forwarded' = forwarded \o data
                      /\ UNCHANGED <<exitCode, err>>
                      /\ IF ExitDecision(Classifier, data, clock, clock)
                         THEN Break("ok", "should_exit")
                         ELSE /\ pc' = IF n < Len(tty) THEN "stdin" ELSE "master"
                              /\ UNCHANGED <<result, exitReason>>
    /\ UNCHANGED <<envVars, termios, clock, runs, started, state, loaded, metadata,
                   original_termios, shell, ptyOut, shown, terminal_output, script,
                   typed, outVars, auxVars>>

\* stdin.read returns Ok(n): process_input, write_all and flush to the master,
\* then should_exit.  A write to the master fails once the shell is gone (EIO),
\* and the ? returns from record_from_master, and from start, at once.
StdinData ==
    /\ pc = "stdin"
    /\ io.stdin_ready
    /\ tty # <<>>
    /\ \E n \in 1..Min(Len(tty), BufSize),
          fw \in (IF shell = "running" THEN {"ok"} ELSE {"ok", "write_error"}) :
          LET data == SubSeq(tty, 1, n)
              r == ProcessInput(Classifier, data, clock, clock)
          IN  /\ tty' = SubSeq(tty, n + 1, Len(tty))
              /\ SetClassifier(r)
              /\ io' = [io EXCEPT !.stdin = "data", !.forward = fw]
              /\ IF fw # "ok"
                 THEN /\ ExitWith(ExitFailure, "master write")
                      /\ UNCHANGED <<forwarded, result, exitReason>>
                 ELSE /\ forwarded' = forwarded \o data
                      /\ UNCHANGED <<exitCode, err>>
                      /\ IF ExitDecision(Classifier, data, clock, clock)
                         THEN Break("ok", "should_exit")
                         ELSE /\ pc' = "master"
                              /\ UNCHANGED <<result, exitReason>>
    /\ UNCHANGED <<envVars, termios, clock, runs, started, state, loaded, metadata,
                   original_termios, shell, ptyOut, shown, terminal_output, script,
                   typed, outVars, auxVars>>

\* revents of the master holds no POLLIN
MasterSkip ==
    /\ pc = "master"
    /\ ~io.master_ready
    /\ pc' = "poll"
    /\ UNCHANGED <<envVars, termios, clock, runs, started, exitCode, err, procVars,
                   recVars, io, ptyVars, userVars, outVars, auxVars>>

\* master_file.read returns Ok(0)
MasterEof ==
    /\ pc = "master"
    /\ io.master_ready
    /\ ptyOut = <<>> /\ shell # "running"
    /\ io' = [io EXCEPT !.master = "eof"]
    /\ Break("ok", "master_eof")
    /\ UNCHANGED <<envVars, termios, clock, runs, started, exitCode, err, state,
                   loaded, metadata, original_termios, recVars, ptyVars, userVars,
                   outVars, auxVars>>

\* master_file.read returns an error of kind WouldBlock
MasterWouldBlock ==
    /\ pc = "master"
    /\ io.master_ready
    /\ io' = [io EXCEPT !.master = "wouldblock"]
    /\ pc' = "poll"
    /\ UNCHANGED <<envVars, termios, clock, runs, started, exitCode, err, procVars,
                   recVars, ptyVars, userVars, outVars, auxVars>>

\* master_file.read returns another error (EIO once the slave side is closed)
MasterError ==
    /\ pc = "master"
    /\ io.master_ready
    /\ ptyOut = <<>> /\ shell # "running"
    /\ io' = [io EXCEPT !.master = "error"]
    /\ Break("err", "master_error")
    /\ UNCHANGED <<envVars, termios, clock, runs, started, exitCode, err, state,
                   loaded, metadata, original_termios, recVars, ptyVars, userVars,
                   outVars, auxVars>>

\* a master branch that extends terminal_output only after the write and the
\* flush went through
MasterDataRecordsLast ==
    /\ pc = "master"
    /\ io.master_ready
    /\ ptyOut # <<>>
    /\ \E n \in 1..Min(Len(ptyOut), BufSize),
          out \in {"ok", "write_error", "flush_error"} :
          LET data == SubSeq(ptyOut, 1, n)
          IN  /\ ptyOut' = SubSeq(ptyOut, n + 1, Len(ptyOut))
              /\ io' = [io EXCEPT !.master = "data", !.stdout = out]
              /\ shown' = IF out = "write_error" THEN shown ELSE shown \o data
              /\ IF out = "ok"
                 THEN /\ terminal_output' = terminal_output \o data
                      /\ pc' = "poll"
                      /\ UNCHANGED <<exitCode, err>>
                 ELSE /\ ExitWith(ExitFailure, "stdout")
                      /\ UNCHANGED terminal_output
    /\ UNCHANGED <<envVars, termios, clock, runs, started, procVars, recVars, shell,
                   forwarded, userVars, outVars, auxVars>>

\* master_file.read returns Ok(n): extend terminal_output, then write_all and
\* flush to stdout; an error there returns through the ? at once
MasterData ==
    /\ pc = "master"
    /\ io.master_ready
    /\ ptyOut # <<>>
    /\ \E n \in 1..Min(Len(ptyOut), BufSize),
          out \in {"ok", "write_error", "flush_error"} :
          LET data == SubSeq(ptyOut, 1, n)
          IN  /\ ptyOut' = SubSeq(ptyOut, n + 1, Len(ptyOut))
              /\ terminal_output' = terminal_output \o data
              /\ io' = [io EXCEPT !.master = "data", !.stdout = out]
              /\ shown' = IF out = "write_error" THEN shown ELSE shown \o data
              /\ IF out = "ok"
                 THEN /\ pc' = "poll"
                      /\ UNCHANGED <<exitCode, err>>
                 ELSE ExitWith(ExitFailure, "stdout")
    /\ UNCHANGED <<envVars, termios, clock, runs, started, procVars, recVars, shell,
                   forwarded, userVars, outVars, auxVars>>


(***************************************************************************)
(* record_from_master, after the loop: restore_terminal_mode (its error is *)
(* dropped), result?, finalize.  An Err goes up through the ? in start,    *)
(* past waitpid, to main.                                                  *)
(***************************************************************************)
\* a restore_terminal_mode after which the result of the loop is not looked at
RestoreTerminalIgnoresResult ==
    /\ pc = "restore"
    /\ termios' = original_termios
    /\ pc' = "finalize"
    /\ UNCHANGED <<envVars, clock, runs, started, exitCode, err, procVars, recVars,
                   io, ptyVars, userVars, outVars, auxVars>>

RestoreTerminal ==
    /\ pc = "restore"
    /\ termios' = original_termios
    /\ IF result = "err"
       THEN ExitWith(ExitFailure, exitReason)
       ELSE /\ pc' = "finalize"
            /\ UNCHANGED <<exitCode, err>>
    /\ UNCHANGED <<envVars, clock, runs, started, procVars, recVars, io, ptyVars,
                   userVars, outVars, auxVars>>

\* Recorder::finalize writes the artifact; the random nonces of the n-th
\* artifact are six values no other artifact has
Finalize ==
    /\ pc = "finalize"
    /\ metadata' = MetadataFinalize(metadata, Secs(clock))
    /\ artifact' = [written |-> TRUE,
                    events |-> keystrokes,
                    commands |-> commands,
                    summary |-> GenerateSummary(keystrokes, commands),
                    metadata |-> MetadataFinalize(metadata, Secs(clock)),
                    terminal_output |-> terminal_output,
                    state_copy |-> state]
    /\ zipFile' = PackArtifact(
                      PayloadBytes(keystrokes, GenerateSummary(keystrokes, commands),
                                   MetadataFinalize(metadata, Secs(clock)),
                                   terminal_output, state),
                      nArtifacts)
    /\ nArtifacts' = nArtifacts + 1
    /\ pc' = "waitpid"
    /\ UNCHANGED <<envVars, termios, clock, runs, started, exitCode, err, state,
                   loaded, original_termios, result, exitReason, recVars, io,
                   ptyVars, userVars, typingVars, cryptoVars, viewed, verified,
                   report>>

\* Recorder::finalize fails (no home directory, the file cannot be written)
FinalizeFails ==
    /\ pc = "finalize"
    /\ ExitWith(ExitFailure, "finalize")
    /\ UNCHANGED <<envVars, termios, clock, runs, started, procVars, recVars, io,
                   ptyVars, userVars, outVars, auxVars>>

\* Recorder::start, after record_from_master returned Ok: waitpid(child), which
\* returns once the child has ended; then Ok(()) and main returns
Waitpid ==
    /\ pc = "waitpid"
    /\ shell = "exited"
    /\ shell' = "reaped"
    /\ ExitWith(ExitSuccess, "none")
    /\ UNCHANGED <<envVars, termios, clock, runs, started, procVars, recVars, io,
                   forwarded, ptyOut, shown, terminal_output, userVars, outVars, auxVars>>

\* the recorder process is killed at some point after the fork
Crash ==
    /\ pc \in ForkedPcs
    /\ pc' = "killed"
    /\ UNCHANGED <<envVars, termios, clock, runs, started, exitCode, err, procVars,
                   recVars, io, ptyVars, userVars, outVars, auxVars>>

(***************************************************************************)
(* The environment: the user at the keyboard, the shell, the clock, and    *)
(* what happens to the state file between two runs.                        *)
(***************************************************************************)
UserTypes ==
    /\ pc \in LoopPcs
    /\ script # <<>>
    /\ tty' = Append(tty, Head(script))
    /\ typed' = Append(typed, Head(script))
    /\ script' = Tail(script)
    /\ UNCHANGED <<envVars, termios, clock, runs, started, pc, exitCode, err,
                   procVars, recVars, io, ptyVars, outVars, auxVars>>

\* the shell writes a byte ("o") to its terminal
ShellOutput ==
    /\ shell = "running"
    /\ pc \in LoopPcs
    /\ Len(terminal_output) + Len(ptyOut) < MaxOut
    /\ ptyOut' = Append(ptyOut, 111)
    /\ UNCHANGED <<envVars, termios, clock, runs, started, pc, exitCode, err,
                   procVars, recVars, io, shell, forwarded, shown, terminal_output,
                   userVars, outVars, auxVars>>

\* the shell ends: it read "exit", it was killed, or its terminal hung up
ShellExit ==
    /\ shell = "running"
    /\ shell' = "exited"
    /\ UNCHANGED <<envVars, termios, clock, runs, started, pc, exitCode, err,
                   procVars, recVars, io, forwarded, ptyOut, shown, terminal_output,
                   userVars, outVars, auxVars>>

Tick ==
    /\ clock < MaxClock
    /\ pc \in {"poll", "finalize"}
    /\ clock' = clock + 1
    /\ UNCHANGED <<envVars, termios, runs, started, pc, exitCode, err, procVars,
                   recVars, io, ptyVars, userVars, outVars, auxVars>>

\* the state file is removed
DeleteFile ==
    /\ pc = "idle"
    /\ file.exists
    /\ file' = NoFile
    /\ pristine' = FALSE
    /\ UNCHANGED <<privileged, termios, clock, runs, started, pc, exitCode, err,
                   procVars, recVars, io, ptyVars, userVars, outVars, auxVars>>

\* what can be wrong with the bytes of a state file
TamperKinds == {"truncated", "bit_flip", "short_plaintext", "checksum", "json"}

Tampered(f, kind) ==
    CASE kind = "truncated" -> [f EXCEPT !.has_nonce = FALSE]
      [] kind = "bit_flip" -> [f EXCEPT !.tag_ok = FALSE]
      [] kind = "short_plaintext" -> [f EXCEPT !.has_checksum = FALSE]
      [] kind = "checksum" ->
            [f EXCEPT !.checksum = Sha256([f.json EXCEPT !.run_counter = @ + 1])]
      [] kind = "json" ->
            [f EXCEPT !.json = [@ EXCEPT !.parses = FALSE],
                      !.checksum = Sha256([f.json EXCEPT !.parses = FALSE])]

\* a state file the recorder wrote is overwritten with bytes that are wrong
TamperFile ==
    /\ pc = "idle"
    /\ file.exists
    /\ StateLoad(file, TRUE).ok
    /\ \E kind \in TamperKinds : file' = Tampered(file, kind)
    /\ pristine' = FALSE
    /\ UNCHANGED <<privileged, termios, clock, runs, started, pc, exitCode, err,
                   procVars, recVars, io, ptyVars, userVars, outVars, auxVars>>

\* the process is gone; the next recorder process starts from scratch
NextRun ==
    /\ pc \in {"exited", "killed"}
    /\ runs < MaxRuns
    /\ pc' = "idle"
    /\ exitCode' = ExitSuccess
    /\ err' = "none"
    /\ state' = FreshState
    /\ loaded' = 0
    /\ metadata' = NoMetadata
    /\ keystrokes' = <<>>
    /\ commands' = <<>>
    /\ terminal_output' = <<>>
    /\ current_input' = <<>>
    /\ recent_keystrokes' = <<>>
    /\ original_termios' = "none"
    /\ result' = "none"
    /\ exitReason' = "none"
    /\ io' = IoNone
    /\ shell' = "none"
    /\ typed' = <<>>
    /\ tty' = <<>>
    /\ forwarded' = <<>>
    /\ ptyOut' = <<>>
    /\ shown' = <<>>
    /\ script' \in RunScripts
    /\ UNCHANGED <<envVars, termios, clock, runs, started, outVars, auxVars>>

\* Recorder::new and Recorder::start up to the relay loop
StartStep ==
    \/ RecorderNew
    \/ StartFork
    \/ StartFails
    \/ SetRawMode
    \/ SetRawModeFails

\* the relay loop and what follows it, with the user and the shell
RelayStep ==
    \/ PollTimeout
    \/ PollInterrupted
    \/ PollError
    \/ PollReady
    \/ StdinSkip
    \/ StdinEof
    \/ StdinWouldBlock
    \/ StdinError
    \/ StdinData
    \/ MasterSkip
    \/ MasterEof
    \/ MasterWouldBlock
    \/ MasterError
    \/ MasterData
    \/ RestoreTerminal
    \/ Finalize
    \/ FinalizeFails
    \/ Waitpid
    \/ UserTypes
    \/ ShellOutput
    \/ ShellExit

Next ==
    \/ StartStep
    \/ RelayStep
    \/ Crash
    \/ DeleteFile
    \/ TamperFile
    \/ NextRun

\* The life cycle: run after run, the process killed at any point, the state
\* file deleted or overwritten between two runs.  In each session the user
\* presses Enter once; the clock stands still.
Spec == Init /\ [][Next]_vars

(***************************************************************************)
(* One session on a machine on which the recorder never ran, with the      *)
(* clock running: the user types one of SessionScripts, stdin delivers it  *)
(* in chunks of any size.                                                  *)
(***************************************************************************)
\* "exit" Enter
ScriptExit == <<101, 120, 105, 116, 10>>
\* "ls -la" Enter "exit" Enter
ScriptLsExit == <<108, 115, 32, 45, 108, 97, 10, 101, 120, 105, 116, 10>>

SessionScripts ==
    {ScriptExit,
     ScriptLsExit,
     <<101, 120, 105, 116, 32, 10>>,     \* "exit " Enter
     <<32, 101, 120, 105, 116, 10>>,     \* " exit" Enter
     <<69, 120, 105, 116, 10>>,          \* "Exit" Enter
     <<113, 117, 105, 116, 10>>,         \* "quit" Enter
     <<101, 120, 105, 116, 10, 108, 115>>  \* "exit" Enter "ls"
    }

InitSession ==
    /\ MachineInit
    /\ ~privileged
    /\ ProcessInit
    /\ ToolsIdle
    /\ script \in SessionScripts

NextSession ==
    \/ StartStep
    \/ RelayStep
    \/ Tick

SpecSession == InitSession /\ [][NextSession]_vars

(***************************************************************************)
(* The classifier alone: process_input applied to chunk after chunk, in a  *)
(* recorder that has just entered its relay loop.                          *)
(***************************************************************************)
\* the chunks handed to process_input: single keys ("e", Space, LF, CR, DEL)
\* and the word "exit"
ClassifyChunks == {<<101>>, <<32>>, <<10>>, <<13>>, <<127>>, ExitWord}

\* the state after Recorder::new, fork and set_raw_mode of the first session
InitClassify ==
    /\ file = StateSave(IncrementCounter(FreshState, 0), NoFile, FALSE).file
    /\ privileged = FALSE
    /\ termios = "raw"
    /\ clock = 0
    /\ runs = 1
    /\ started = <<[run_counter |-> 1, fresh |-> TRUE]>>
    /\ pristine = TRUE
    /\ artifact = NoArtifact
    /\ nArtifacts = 0
    /\ ToolsIdle
    /\ pc = "poll"
    /\ exitCode = ExitSuccess
    /\ err = "none"
    /\ state = IncrementCounter(FreshState, 0)
    /\ loaded = 0
    /\ metadata = MetadataNew(1, 0)
    /\ keystrokes = <<>>
    /\ commands = <<>>
    /\ terminal_output = <<>>
    /\ current_input = <<>>
    /\ recent_keystrokes = <<>>
    /\ original_termios = "cooked"
    /\ result = "none"
    /\ exitReason = "none"
    /\ io = IoNone
    /\ shell = "running"
    /\ script = <<>>
    /\ typed = <<>>
    /\ tty = <<>>
    /\ forwarded = <<>>
    /\ ptyOut = <<>>
    /\ shown = <<>>

\* self.process_input(data) for a chunk the user typed and stdin delivered;
\* a millisecond passes from one chunk to the next
ClassifyChunk ==
    /\ pc = "poll"
    /\ \E data \in ClassifyChunks :
          /\ Len(keystrokes) + Len(data) <= MaxKeys
          /\ typed' = typed \o data
          /\ SetClassifier(ProcessInput(Classifier, data, clock, clock))
    /\ clock' = clock + 1
    /\ UNCHANGED <<envVars, termios, runs, started, pc, exitCode, err, procVars, io,
                   ptyVars, script, tty, outVars, auxVars>>

NextClassify == ClassifyChunk

SpecClassify == InitClassify /\ [][NextClassify]_vars

(***************************************************************************)
(* The classifier under a typing rhythm: the user types a script, every    *)
(* read of stdin returns up to chunkSize bytes of it, and pace             *)
(* milliseconds pass from one read to the next.                            *)
(***************************************************************************)
\* n times the letter "a"
Burst(n) == [k \in 1..n |-> 97]

\* "helpo" Backspace "o" Enter
ScriptHelpo == <<104, 101, 108, 112, 111, 127, 111, 10>>

\* how many printable characters the user types without a pause
BurstLengths == {19, 20, 21, 40, 50, 100}

TypingScripts ==
    {<<b>> : b \in 0..255}
        \cup {Burst(n) : n \in BurstLengths}
        \cup {ScriptHelpo,
              <<104, 101, 108, 112, 111, 8, 111, 13>>,   \* the same with Ctrl+H, CR
              <<127, 8, 97, 127, 127, 98, 10>>,          \* Backspace on an empty line
              Burst(10) \o <<10>> \o Burst(10)}          \* Enter inside a burst

\* milliseconds between two reads: none (a burst within a millisecond), 1, 5
\* (20 characters spread over 100 ms), 6, and 200 (5 characters a second)
TypingPaces == {0, 1, 5, 6, 200}

\* bytes per read: a key at a time, a few, or all that fits the buffer
TypingChunkSizes == {1, 3, BufSize}

InitTyping ==
    /\ file = StateSave(IncrementCounter(FreshState, 0), NoFile, FALSE).file
    /\ privileged = FALSE
    /\ termios = "raw"
    /\ clock = 0
    /\ runs = 1
    /\ started = <<[run_counter |-> 1, fresh |-> TRUE]>>
    /\ pristine = TRUE
    /\ artifact = NoArtifact
    /\ nArtifacts = 0
    /\ NoCrypto
    /\ NoViewer
    /\ pc = "poll"
    /\ exitCode = ExitSuccess
    /\ err = "none"
    /\ state = IncrementCounter(FreshState, 0)
    /\ loaded = 0
    /\ metadata = MetadataNew(1, 0)
    /\ keystrokes = <<>>
    /\ commands = <<>>
    /\ terminal_output = <<>>
    /\ current_input = <<>>
    /\ recent_keystrokes = <<>>
    /\ original_termios = "cooked"
    /\ result = "none"
    /\ exitReason = "none"
    /\ io = IoNone
    /\ shell = "running"
    /\ script \in TypingScripts
    /\ typed = <<>>
    /\ tty = <<>>
    /\ forwarded = <<>>
    /\ ptyOut = <<>>
    /\ shown = <<>>
    /\ pace \in TypingPaces
    /\ chunkSize \in TypingChunkSizes
    /\ decoded = <<>>

\* self.process_input(data) for the next chunk of the script
TypeChunk ==
    /\ pc = "poll"
    /\ script # <<>>
    /\ LET n == Min(Min(chunkSize, BufSize), Len(script))
           data == SubSeq(script, 1, n)
       IN  /\ typed' = typed \o data
           /\ script' = SubSeq(script, n + 1, Len(script))
           /\ decoded' = [k \in 1..n |-> DecodeKey(data[k])]
           /\ SetClassifier(ProcessInput(Classifier, data, clock, clock))
    /\ clock' = clock + pace
    /\ UNCHANGED <<envVars, termios, runs, started, pc, exitCode, err, procVars, io,
                   ptyVars, tty, outVars, pace, chunkSize, cryptoVars, viewerVars>>

NextTyping == TypeChunk

SpecTyping == InitTyping /\ [][NextTyping]_vars

(***************************************************************************)
(* The envelope functions alone: some bytes are encrypted under a password *)
(* or under the state key, the envelope may reach the reader shortened or  *)
(* with a byte changed, and the three decrypt functions are applied.       *)
(***************************************************************************)
CryptoData == {<<>>, <<7>>, <<7, 200>>}

Passwords == {InstructorPassword, "guess"}

StateKeyName == "state-key"

InitCrypto ==
    /\ MachineInit
    /\ ~privileged
    /\ ProcessInit
    /\ script = <<>>
    /\ NoTyping
    /\ NoViewer
    /\ secret \in CryptoData
    /\ sealedWith = "none"
    /\ envelope = <<>>
    /\ opened = [password |-> "none"]

\* encrypt_file under a password, or encrypt_state
EncryptBytes ==
    /\ sealedWith = "none"
    /\ \E key \in Passwords \cup {StateKeyName}, seed \in NonceSeeds :
          /\ sealedWith' = key
          /\ envelope' = IF key = StateKeyName
                         THEN EncryptStateBytes(secret, seed)
                         ELSE RecorderEncryptFile(secret, key, seed)
    /\ UNCHANGED <<envVars, termios, clock, runs, started, pc, exitCode, err,
                   procVars, recVars, io, ptyVars, userVars, outVars, typingVars,
                   secret, opened, viewerVars>>

\* only the first bytes of the envelope reach the reader
TruncateEnvelope ==
    /\ sealedWith # "none"
    /\ opened.password = "none"
    /\ \E len \in 0..(Len(envelope) - 1) : envelope' = SubSeq(envelope, 1, len)
    /\ UNCHANGED <<envVars, termios, clock, runs, started, pc, exitCode, err,
                   procVars, recVars, io, ptyVars, userVars, outVars, typingVars,
                   secret, sealedWith, opened, viewerVars>>

\* one byte of the envelope is changed
CorruptEnvelope ==
    /\ sealedWith # "none"
    /\ opened.password = "none"
    /\ \A k \in 1..Len(envelope) : DOMAIN envelope[k] # {"changed"}
    /\ \E k \in 1..Len(envelope) :
          envelope' = [envelope EXCEPT ![k] = [changed |-> k]]
    /\ UNCHANGED <<envVars, termios, clock, runs, started, pc, exitCode, err,
                   procVars, recVars, io, ptyVars, userVars, outVars, typingVars,
                   secret, sealedWith, opened, viewerVars>>

\* decrypt_file of the recorder, decrypt_file of the viewer and decrypt_state
DecryptBytes ==
    /\ sealedWith # "none"
    /\ opened.password = "none"
    /\ \E password \in Passwords :
          opened' = [password |-> password,
                     recorder |-> RecorderDecryptFile(envelope, password),
                     viewer   |-> ViewerDecryptFile(envelope, password),
                     state    |-> DecryptStateBytes(envelope)]
    /\ UNCHANGED <<envVars, termios, clock, runs, started, pc, exitCode, err,
                   procVars, recVars, io, ptyVars, userVars, outVars, typingVars,
                   secret, sealedWith, envelope, viewerVars>>

NextCrypto ==
    \/ EncryptBytes
    \/ TruncateEnvelope
    \/ CorruptEnvelope
    \/ DecryptBytes

SpecCrypto == InitCrypto /\ [][NextCrypto]_vars

(***************************************************************************)
(* The artifact from the recorder to the viewer: a session has ended, the  *)
(* terminal is restored and Recorder::finalize is about to run.  The file  *)
(* it writes may be packed again by someone who holds the password, which  *)
(* is a literal of the recorder; the viewer's commands then read it.       *)
(***************************************************************************)
\* what the user typed in the session: nothing, "ls" Enter, a paste of 20,
\* "a" Backspace "b" Ctrl+H Enter, and "exit" Enter delivered by one read
ViewerSessions ==
    {<<>>, <<108, 115, 10>>, Burst(20), <<97, 127, 98, 8, 10>>, ScriptExit}

\* what the shell wrote: nothing, "o", a byte that is no UTF-8, a two-byte
\* character, the first byte of one
TerminalOutputs == {<<>>, <<111>>, <<255>>, <<195, 169>>, <<195>>}

\* the order of the members in a repacked archive
MemberOrders == {<<1, 2, 3, 4, 5, 6>>, <<2, 1, 3, 4, 5, 6>>, <<6, 5, 4, 3, 2, 1>>}

\* the first session on a machine, at the call of Recorder::finalize
InitViewer ==
    /\ file = StateSave(IncrementCounter(FreshState, 0), NoFile, FALSE).file
    /\ privileged = FALSE
    /\ termios = "cooked"
    /\ clock = 0
    /\ runs = 1
    /\ started = <<[run_counter |-> 1, fresh |-> TRUE]>>
    /\ pristine = TRUE
    /\ artifact = NoArtifact
    /\ nArtifacts = 0
    /\ ToolsIdle
    /\ pc = "finalize"
    /\ exitCode = ExitSuccess
    /\ err = "none"
    /\ state = IncrementCounter(FreshState, 0)
    /\ loaded = 0
    /\ metadata = MetadataNew(1, 0)
    /\ typed \in ViewerSessions
    /\ LET r == ProcessInput([keystrokes |-> <<>>, commands |-> <<>>,
                              current_input |-> <<>>, recent |-> <<>>],
                             typed, 0, 0)
       IN  /\ keystrokes = r.keystrokes
           /\ commands = r.commands
           /\ current_input = r.current_input
           /\ recent_keystrokes = r.recent
    /\ terminal_output \in TerminalOutputs
    /\ shown = terminal_output
    /\ original_termios = "cooked"
    /\ result = "ok"
    /\ exitReason = "master_eof"
    /\ io = [IoNone EXCEPT !.poll = "ready", !.master_ready = TRUE, !.master = "eof"]
    /\ shell = "exited"
    /\ script = <<>>
    /\ tty = <<>>
    /\ forwarded = typed
    /\ ptyOut = <<>>

FileWritten == Len(zipFile) > 0

\* the members of the artifact file, for those who hold the password
MembersOf(encrypted_zip) == RecorderDecryptFile(encrypted_zip, InstructorPassword).val

\* no command of the viewer has read the file yet
NotRead == ~viewed.ran /\ ~verified.ran

\* the names of the members in the order Recorder::finalize writes them
PackedNames == <<NameEvents, NameSummary, NameMetadata, NameTerminalOutput,
                 NameStateCopy, NameIntegrity>>

\* the digest of the five inner ciphertexts in the order of the packager
PackedHash(members) ==
    CalculateFileHash(LastOf(members, NameEvents) \o LastOf(members, NameSummary)
                          \o LastOf(members, NameMetadata)
                          \o LastOf(members, NameTerminalOutput)
                          \o LastOf(members, NameStateCopy))

\* the bytes Recorder::finalize encrypted for the artifact it wrote
ArtifactPayload ==
    PayloadBytes(artifact.events, artifact.summary, artifact.metadata,
                 artifact.terminal_output, artifact.state_copy)

\* the file is as Recorder::finalize wrote it
ArtifactIntact ==
    /\ artifact.written
    /\ zipFile = PackArtifact(ArtifactPayload, nArtifacts - 1)

\* the outer envelope opens under the password of the recorder
FileOpens == RecorderDecryptFile(zipFile, InstructorPassword).ok

\* the six members are there, each once
AllMembers(members) ==
    /\ Len(members) = 6
    /\ \A k \in 1..6 : IndicesOf(members, PackedNames[k]) # {}

\* no byte of a member was changed
NoByteChanged(members) ==
    \A m \in 1..Len(members) :
        \A k \in 1..Len(members[m].contents) :
            DOMAIN members[m].contents[k] # {"changed"}

\* the archive is written again with its members in another order
RepackArchive ==
    /\ FileWritten
    /\ NotRead
    /\ FileOpens
    /\ NoByteChanged(MembersOf(zipFile))
    /\ \E order \in MemberOrders, seed \in NonceSeeds :
          LET members == MembersOf(zipFile)
          IN  /\ [k \in 1..Len(members) |-> members[k].name] = PackedNames
              /\ zipFile' = CreatePasswordProtectedZip(
                                [k \in 1..6 |-> members[order[k]]],
                                InstructorPassword, NonceOf(seed, 6))
    /\ UNCHANGED <<envVars, termios, clock, runs, started, pc, exitCode, err,
                   procVars, recVars, io, ptyVars, userVars, outVars, typingVars,
                   cryptoVars, viewed, verified, report>>

\* what a member integrity.sha256 is replaced by: the same text and a line
\* feed, the digest of nothing, the digest the analyzer computes
ForgedHashes(members) ==
    LET at == SetMax(IndicesOf(members, NameIntegrity))
        Payload(name) == RecorderDecryptFile(LastOf(members, name), InstructorPassword).val
    IN  {members[at].contents \o <<[ws |-> 10]>>,
         CalculateFileHash(<<>>),
         CalculateFileHash(
             ValueToString(ValueFromSlice(Payload(NameEvents)).val)
                 \o ValueToString(ValueFromSlice(Payload(NameSummary)).val)
                 \o ValueToString(ValueFromSlice(Payload(NameMetadata)).val)
                 \o Utf8Lossy(Payload(NameTerminalOutput))
                 \o ValueToString(ValueFromSlice(Payload(NameStateCopy)).val))}

\* the member integrity.sha256 of the archive is replaced
ReplaceIntegrity ==
    /\ FileWritten
    /\ NotRead
    /\ FileOpens
    /\ AllMembers(MembersOf(zipFile))
    /\ NoByteChanged(MembersOf(zipFile))
    /\ LET members == MembersOf(zipFile)
           at == SetMax(IndicesOf(members, NameIntegrity))
       IN  \E hash \in ForgedHashes(members), seed \in NonceSeeds :
              /\ members[at].contents = PackedHash(members)
              /\ zipFile' = CreatePasswordProtectedZip(
                                [members EXCEPT ![at].contents = hash],
                                InstructorPassword, NonceOf(seed, 6))
    /\ UNCHANGED <<envVars, termios, clock, runs, started, pc, exitCode, err,
                   procVars, recVars, io, ptyVars, userVars, outVars, typingVars,
                   cryptoVars, viewed, verified, report>>

\* a byte of the file past the nonce is changed
CorruptOuter ==
    /\ NotRead
    /\ ArtifactIntact
    /\ \E k \in (NonceLen + 1)..Len(zipFile) :
          zipFile' = [zipFile EXCEPT ![k] = [changed |-> k]]
    /\ UNCHANGED <<envVars, termios, clock, runs, started, pc, exitCode, err,
                   procVars, recVars, io, ptyVars, userVars, outVars, typingVars,
                   cryptoVars, viewed, verified, report>>

\* a byte of one of the five encrypted members is changed and the archive
\* written again
CorruptMember ==
    /\ NotRead
    /\ ArtifactIntact
    /\ LET members == MembersOf(zipFile)
       IN  \E m \in 1..Len(members) :
              /\ members[m].name \in EncNames
              /\ \E k \in 1..Len(members[m].contents) :
                    zipFile' = CreatePasswordProtectedZip(
                                   [members EXCEPT ![m].contents[k] = [changed |-> k]],
                                   InstructorPassword, NonceOf(1, 6))
    /\ UNCHANGED <<envVars, termios, clock, runs, started, pc, exitCode, err,
                   procVars, recVars, io, ptyVars, userVars, outVars, typingVars,
                   cryptoVars, viewed, verified, report>>

\* the archive is written again without one of its members
DropMember ==
    /\ NotRead
    /\ ArtifactIntact
    /\ LET members == MembersOf(zipFile)
       IN  \E m \in 1..Len(members) :
              zipFile' = CreatePasswordProtectedZip(
                             SubSeq(members, 1, m - 1) \o SubSeq(members, m + 1, Len(members)),
                             InstructorPassword, NonceOf(1, 6))
    /\ UNCHANGED <<envVars, termios, clock, runs, started, pc, exitCode, err,
                   procVars, recVars, io, ptyVars, userVars, outVars, typingVars,
                   cryptoVars, viewed, verified, report>>

\* run_command, Open, Summary and Export: Decryptor::decrypt, then
\* Analyzer::analyze on what it returned
ViewerOpen ==
    /\ FileWritten
    /\ \E password \in Passwords :
          LET data == DecryptorDecrypt(zipFile, password)
          IN  /\ viewed' = [ran |-> TRUE, password |-> password, data |-> data]
              /\ report' = IF data.ok
                           THEN [ran |-> TRUE, val |-> AnalyzerAnalyze(data)]
                           ELSE [ran |-> FALSE]
    /\ UNCHANGED <<envVars, termios, clock, runs, started, pc, exitCode, err,
                   procVars, recVars, io, ptyVars, userVars, outVars, typingVars,
                   cryptoVars, zipFile, verified>>

\* run_command, Verify: Decryptor::verify_integrity
ViewerVerify ==
    /\ FileWritten
    /\ \E password \in Passwords :
          verified' = [ran |-> TRUE, password |-> password,
                       res |-> DecryptorVerifyIntegrity(zipFile, password)]
    /\ UNCHANGED <<envVars, termios, clock, runs, started, pc, exitCode, err,
                   procVars, recVars, io, ptyVars, userVars, outVars, typingVars,
                   cryptoVars, zipFile, viewed, report>>

NextViewer ==
    \/ Finalize
    \/ FinalizeFails
    \/ RepackArchive
    \/ ReplaceIntegrity
    \/ CorruptOuter
    \/ CorruptMember
    \/ DropMember
    \/ ViewerOpen
    \/ ViewerVerify

SpecViewer == InitViewer /\ [][NextViewer]_vars

(***************************************************************************)
(* One session in which the user types nothing and the shell writes up to  *)
(* MaxShellBytes bytes, which the master delivers in chunks of any size.   *)
(***************************************************************************)
\* bytes the shell writes in the session
MaxShellBytes == 3

\* what the shell writes: "o", "k", a line feed
ShellBytes == {111, 107, 10}

\* the shell writes a byte to its terminal
ShellWrites ==
    /\ shell = "running"
    /\ pc \in LoopPcs
    /\ Len(terminal_output) + Len(ptyOut) < MaxShellBytes
    /\ \E b \in ShellBytes : ptyOut' = Append(ptyOut, b)
    /\ UNCHANGED <<envVars, termios, clock, runs, started, pc, exitCode, err,
                   procVars, recVars, io, shell, forwarded, shown, terminal_output,
                   userVars, outVars, auxVars>>

InitOutput ==
    /\ MachineInit
    /\ ~privileged
    /\ ProcessInit
    /\ ToolsIdle
    /\ script = <<>>

NextOutput ==
    \/ StartStep
    \/ PollTimeout
    \/ PollInterrupted
    \/ PollError
    \/ PollReady
    \/ StdinSkip
    \/ StdinEof
    \/ StdinWouldBlock
    \/ StdinError
    \/ MasterSkip
    \/ MasterEof
    \/ MasterWouldBlock
    \/ MasterError
    \/ MasterData
    \/ RestoreTerminal
    \/ Finalize
    \/ FinalizeFails
    \/ Waitpid
    \/ ShellWrites
    \/ ShellExit

SpecOutput == InitOutput /\ [][NextOutput]_vars

(***************************************************************************)
(* process_input over lines that hold control bytes: the user types up to  *)
(* MaxControlKeys bytes, among them Ctrl+C, Ctrl+U, Tab, ESC and a byte    *)
(* above 127, and stdin delivers them chunk by chunk.                      *)
(***************************************************************************)
\* bytes handed to process_input in the session
MaxControlKeys == 5

\* "exi", "t", a space, a line feed, DEL, Ctrl+C, Ctrl+U, Tab, ESC, 0xC8
ControlChunks ==
    {<<101, 120, 105>>, <<116>>, <<32>>, <<10>>, <<127>>, <<3>>, <<21>>, <<9>>,
     <<27>>, <<200>>}

\* self.process_input(data) for one of the chunks
ControlChunk ==
    /\ pc = "poll"
    /\ \E data \in ControlChunks :
          /\ Len(keystrokes) + Len(data) <= MaxControlKeys
          /\ typed' = typed \o data
          /\ SetClassifier(ProcessInput(Classifier, data, clock, clock))
    /\ clock' = clock + 1
    /\ UNCHANGED <<envVars, termios, runs, started, pc, exitCode, err, procVars, io,
                   ptyVars, script, tty, outVars, auxVars>>

NextControl == ControlChunk

SpecControl == InitClassify /\ [][NextControl]_vars

(***************************************************************************)
(* One run on a machine on which the recorder ran once: since then the     *)
(* state file was left alone, deleted, given another mode by its owner, or *)
(* overwritten.                                                            *)
(***************************************************************************)
\* the state file the first run left
FirstSavedFile == StateSave(IncrementCounter(FreshState, 0), NoFile, FALSE).file

\* the modes its owner may have given it: 0o000 as saved, 0o400, 0o600
OwnerModes == {StateFileMode, 256, 384}

\* the state files the run may find
StartupFiles ==
    {NoFile}
        \cup {[FirstSavedFile EXCEPT !.mode = m] : m \in OwnerModes}
        \cup {[Tampered(FirstSavedFile, kind) EXCEPT !.mode = m] :
                  kind \in TamperKinds, m \in {256, 384}}

InitStartup ==
    /\ file \in StartupFiles
    /\ privileged \in BOOLEAN
    /\ termios = "cooked"
    /\ clock = 0
    /\ runs = 1
    /\ started = <<[run_counter |-> 1, fresh |-> TRUE]>>
    /\ pristine = (file = FirstSavedFile)
    /\ artifact = NoArtifact
    /\ nArtifacts = 0
    /\ ProcessInit
    /\ ToolsIdle
    /\ script \in RunScripts

NextStartup ==
    \/ StartStep
    \/ RelayStep

SpecStartup == InitStartup /\ [][NextStartup]_vars

(***************************************************************************)
(* Properties.                                                             *)
(***************************************************************************)

\* C1: on every path by which record_from_master leaves the relay loop after
\* raw mode was set, the terminal attributes saved by set_raw_mode are back in
\* place when the function has returned (the process is past the restore:
\* about to finalize, about to wait for the child, or exited).
C1_TerminalRestoredOnEveryPath ==
    (pc \in {"finalize", "waitpid", "exited"} /\ original_termios # "none")
        => termios = original_termios

\* C2: from a machine with no state file, the consecutive runs of one
\* unprivileged user, each run before the current one having recorded and
\* written its artifact, all get their recorder (Recorder::new succeeds in
\* every process started), the k-th run persists run_counter = k, and the
\* artifact it writes carries k in metadata.run_counter and
\* state_copy.run_counter.
C2_ConsecutiveRunsSucceed ==
    (pristine /\ ~privileged /\ nArtifacts >= runs - 1) =>
        /\ pc # "idle" => Len(started) = runs
        /\ pc = "created" =>
              /\ file.exists
              /\ file.json.run_counter = runs
        /\ pc = "waitpid" =>
              /\ artifact.metadata.run_counter = runs
              /\ artifact.state_copy.run_counter = runs

FileTampered(f) ==
    /\ f.exists
    /\ \/ ~f.has_nonce
       \/ ~f.tag_ok
       \/ ~f.has_checksum
       \/ f.checksum # Sha256(f.json)
       \/ ~f.json.parses

\* C4: when the recorder starts on a tampered state file, Recorder::new fails:
\* the process exits with code 1, no counter is recorded, no shell is forked,
\* no artifact is written, and the state file is left as it was.
C4_TamperedStateIsFatal ==
    [][(pc = "idle" /\ pc' # "idle" /\ FileTampered(file)) =>
          /\ pc' = "exited"
          /\ exitCode' = ExitFailure
          /\ err' # "none"
          /\ file' = file
          /\ started' = started
          /\ shell' = "none"
          /\ nArtifacts' = nArtifacts]_vars

\* a recorder that read a file with a wrong checksum has exited on it
C4_Witness ==
    /\ pc = "exited"
    /\ file.exists
    /\ file.checksum # Sha256(file.json)
    /\ err = "State checksum verification failed - possible tampering"

\* C5: from the fork on, also after the process was killed or failed, the
\* persisted counter equals metadata.run_counter, which is the counter this
\* process loaded plus one.
C5_CounterPersistedBeforeFork ==
    (pc \in ForkedPcs \/ pc = "created" \/ (pc \in {"exited", "killed"} /\ shell # "none"))
        => /\ file.exists
           /\ file.json.run_counter = metadata.run_counter
           /\ state.run_counter = metadata.run_counter
           /\ metadata.run_counter = loaded + 1

\* a second recording was killed: the file holds one more than the first run
C5_Witness ==
    /\ pc = "killed"
    /\ loaded = 1
    /\ file.json.run_counter = 2

\* C6: the relay loop is left only when a read of stdin or of the master
\* returned EOF, when should_exit holds after a stdin chunk was forwarded, or
\* on an I/O error (poll, read, write, flush); a poll timeout and a poll
\* interrupted by EINTR keep the process polling.
C6_LoopLeavesOnlyOnExitOrError ==
    [][/\ (pc \in LoopPcs /\ pc' \notin LoopPcs) =>
             \/ io'.stdin = "eof"
             \/ io'.master = "eof"
             \/ /\ pc = "stdin"
                /\ io'.stdin = "data"
                /\ io'.forward = "ok"
                /\ ShouldExit(current_input')
             \/ io'.poll = "error"
             \/ io'.stdin = "error"
             \/ io'.master = "error"
             \/ io'.forward = "write_error"
             \/ io'.stdout \in {"write_error", "flush_error"}
       /\ (pc = "poll" /\ io'.poll \in {"timeout", "eintr"}) => pc' = "poll"]_vars

\* the loop was left on EOF of the master, after keystrokes were recorded
C6_Witness ==
    /\ pc = "restore"
    /\ exitReason = "master_eof"
    /\ keystrokes # <<>>

\* The line buffer as the claims describe it: the edits of a line applied in
\* order, printable bytes appended, 8 and 127 taking the last byte away.
EditByte(line, b) ==
    IF b \in {8, 127} THEN SubSeq(line, 1, Len(line) - 1)
    ELSE IF b >= 32 /\ b <= 126 THEN Append(line, b)
    ELSE line

\* the edits in order: those of the first half of the bytes, then the others
RECURSIVE EditFrom(_, _)
EditFrom(line, bytes) ==
    IF bytes = <<>> THEN line
    ELSE IF Len(bytes) = 1 THEN EditByte(line, bytes[1])
    ELSE LET half == Len(bytes) \div 2
             first == EditFrom(line, SubSeq(bytes, 1, half))
         IN  IF Len(first) >= 0
             THEN EditFrom(first, SubSeq(bytes, half + 1, Len(bytes)))
             ELSE first

EditLine(bytes) == EditFrom(<<>>, bytes)

\* the events that are line terminators
IsTerminator(event) == event.key_code \in LineTerminators

\* the line typed before event i: what was typed since the last terminator
LineBefore(ks, i) ==
    LET earlier == {j \in 1..(i - 1) : IsTerminator(ks[j])}
        from == IF earlier = {} THEN 1
                ELSE 1 + CHOOSE j \in earlier : \A k \in earlier : k <= j
    IN  EditLine([k \in 1..(i - from) |-> ks[from + k - 1].key_code])

\* one command per terminator among the first n events whose line, trimmed, is
\* neither empty nor "exit"
RECURSIVE ExpectedCommands(_, _)
ExpectedCommands(ks, n) ==
    IF n = 0 THEN <<>>
    ELSE LET line == Trim(LineBefore(ks, n))
         IN  IF IsTerminator(ks[n]) /\ line # <<>> /\ line # ExitWord
             THEN Append(ExpectedCommands(ks, n - 1),
                         [timestamp |-> ks[n].timestamp, command |-> line])
             ELSE ExpectedCommands(ks, n - 1)

\* C7: the commands are exactly one CommandEvent per line terminator whose
\* line, trimmed, is non-empty and not "exit", in order, each with the trimmed
\* text and the terminator's timestamp; and right after a terminator the line
\* buffer is empty.
C7_CommandPerTerminator ==
    /\ commands = ExpectedCommands(keystrokes, Len(keystrokes))
    /\ (keystrokes # <<>> /\ IsTerminator(keystrokes[Len(keystrokes)]))
          => current_input = <<>>

\* an "exit" line and a line that is a command were both terminated, and
\* exactly one command was recorded
C7_Witness ==
    /\ \E i \in 1..Len(keystrokes) :
          IsTerminator(keystrokes[i]) /\ Trim(LineBefore(keystrokes, i)) = ExitWord
    /\ \E i \in 1..Len(keystrokes) :
          /\ IsTerminator(keystrokes[i])
          /\ Trim(LineBefore(keystrokes, i)) \notin {<<>>, ExitWord}
    /\ Len(commands) = 1

Spaces(n) == [k \in 1..n |-> 32]

\* "exit" with nothing but spaces before and after it
IsSpacedExit(s) ==
    \E a \in 0..Len(s), b \in 0..Len(s) : s = Spaces(a) \o ExitWord \o Spaces(b)

\* C8 as stated: the loop is left by the user path only when the line buffer
\* is exactly "exit".
C8_ExitOnlyOnExactLine ==
    exitReason = "should_exit" => current_input = ExitWord

\* C8, amended: the loop is left by the user path only when the line buffer
\* is "exit" with nothing but spaces around it ("Exit" and "quit" do not end
\* it), and a forwarded chunk that leaves such a buffer, spaces included, does
\* end it: the loop goes on to the master branch only with another buffer.
C8_ExitOnTrimmedLine ==
    /\ exitReason = "should_exit" => IsSpacedExit(current_input)
    /\ (pc = "master" /\ io.stdin = "data") => ~IsSpacedExit(current_input)

\* the loop was left on "exit" with a space before or after it
C8_Witness ==
    /\ exitReason = "should_exit"
    /\ current_input # ExitWord
    /\ pc = "restore"

\* C9 as stated: after a stdin chunk, the loop is left by the user path
\* exactly when the trimmed line buffer at the end of the chunk is "exit".
C9_ExitIffBufferIsExit ==
    io.stdin = "data" =>
        (exitReason = "should_exit" <=> Trim(current_input) = ExitWord)

\* C9, amended: after a stdin chunk, the loop is left by the user path exactly
\* when the chunk was forwarded to the master without error and the trimmed
\* line buffer at the end of the chunk is "exit"; the recorder then restores
\* the terminal and finalizes, and only afterwards waits for the shell.
C9_ExitIffForwardedAndBufferIsExit ==
    [][/\ io'.stdin = "data" =>
             (exitReason' = "should_exit"
                 <=> (io'.forward = "ok" /\ Trim(current_input') = ExitWord))
       /\ (exitReason = "should_exit" /\ pc = "restore" /\ pc' # pc)
             => pc' = "finalize"
       /\ (exitReason = "should_exit" /\ pc = "finalize" /\ pc' # pc)
             => (pc' \in {"waitpid", "exited"} /\ shell' = shell)]_vars

\* the artifact of a session ended by "exit" is written while the shell runs
C9_Witness ==
    /\ pc = "waitpid"
    /\ exitReason = "should_exit"
    /\ artifact.written
    /\ shell = "running"

\* "ls -la"
CommandLs == <<108, 115, 32, 45, 108, 97>>

\* C10: in a session that the user ends by typing "exit" and Enter, and that
\* the recorder ends by the user path or on EOF of the master with everything
\* typed forwarded to the shell, every typed byte is in the artifact: "exit"
\* Enter gives 5 events, no command, total 5 and enter_pressed 1; "ls -la"
\* Enter "exit" Enter gives 12 events, the command "ls -la", enter_pressed 2.
C10_EveryTypedByteRecorded ==
    (/\ artifact.written
     /\ \/ exitReason = "should_exit"
        \/ (exitReason = "master_eof" /\ forwarded = typed)) =>
        /\ typed = ScriptExit =>
              /\ Len(artifact.events) = 5
              /\ artifact.commands = <<>>
              /\ artifact.summary.total_keystrokes = 5
              /\ artifact.summary.enter_pressed = 1
              /\ artifact.summary.commands_executed = 0
        /\ typed = ScriptLsExit =>
              /\ Len(artifact.events) = 12
              /\ Len(artifact.commands) = 1
              /\ artifact.commands[1].command = CommandLs
              /\ artifact.summary.enter_pressed = 2

\* the bytes typed after the last line terminator
LastLine(bytes) ==
    LET ends == {j \in 1..Len(bytes) : bytes[j] \in {10, 13}}
        from == IF ends = {} THEN 1
                ELSE 1 + CHOOSE j \in ends : \A k \in ends : k <= j
    IN  SubSeq(bytes, from, Len(bytes))

\* "helpo"
CommandHelpo == <<104, 101, 108, 112, 111>>

\* C11: the line buffer is what the edits typed since the last Enter give when
\* applied in order: a printable byte 32..126 appended, byte 8 or 127 taking
\* the last character away and doing nothing on an empty buffer; so "helpo",
\* Backspace, "o", Enter emits the command "helpo".
C11_LineBufferAppliesEdits ==
    /\ current_input = EditLine(LastLine(typed))
    /\ (script = <<>> /\ Len(typed) = Len(ScriptHelpo)
            /\ SubSeq(typed, 1, 5) = CommandHelpo /\ typed[6] \in {8, 127})
          => /\ Len(commands) = 1
             /\ commands[1].command = CommandHelpo

\* "helpo", Backspace, "o", Enter was typed and the command "helpo" recorded
C11_Witness ==
    /\ typed = ScriptHelpo
    /\ script = <<>>
    /\ commands # <<>>
    /\ commands[1].command = CommandHelpo
    /\ current_input = <<>>

\* the deque after the new entry is added and the entries older than 100 ms
\* are evicted
PasteWindow(recent, now) ==
    SelectSeq(Append(recent, [time |-> now, count |-> 1]),
              LAMBDA e : now - e.time <= 100)

RECURSIVE SumCounts(_)
SumCounts(window) ==
    IF window = <<>> THEN 0 ELSE Head(window).count + SumCounts(Tail(window))

\* the rule of the claim: N >= 20 and N * 1000 / T >= 10000, T at least 1
PasteRule(window) ==
    LET N == SumCounts(window)
        span == window[Len(window)].time - window[1].time
        T == IF span >= 1 THEN span ELSE 1
    IN  N >= 20 /\ (N * 1000) \div T >= 10000

IsPrintable(b) == b >= 32 /\ b <= 126

\* C12: a printable byte is flagged as a paste exactly when, in the window of
\* the last 100 ms with the new entry added, the characters are at least 20
\* and their rate N * 1000 / T is at least 10000 a second, T being the
\* milliseconds from the oldest to the newest entry, at least 1; so 20
\* characters spread evenly over 100 ms are not flagged.
C12_PasteIffTwentyAtTenPerMs ==
    [][(/\ chunkSize = 1
        /\ Len(keystrokes') = Len(keystrokes) + 1
        /\ IsPrintable(keystrokes'[Len(keystrokes')].key_code))
          => (keystrokes'[Len(keystrokes')].is_paste
                 <=> PasteRule(PasteWindow(recent_keystrokes, clock)))]_vars

\* the events flagged as paste
Flagged(ks) == {k \in 1..Len(ks) : ks[k].is_paste}

\* C13: one continuous burst of printable characters is flagged exactly once:
\* after 50 printable bytes typed within a millisecond, and after 100
\* printable bytes delivered by one read, exactly one event has is_paste, and
\* the summary has paste_events = 1 and total_pasted_chars = 1.
C13_BurstFlaggedOnce ==
    (/\ script = <<>>
     /\ \/ (typed = Burst(50) /\ pace = 0)
        \/ (typed = Burst(100) /\ chunkSize >= 100)) =>
        /\ Cardinality(Flagged(keystrokes)) = 1
        /\ GenerateSummary(keystrokes, commands).paste_events = 1
        /\ GenerateSummary(keystrokes, commands).total_pasted_chars = 1

\* the printable characters up to event k that fall in the 100 ms before it
PrintableInWindow(ks, k) ==
    {j \in 1..k : /\ IsPrintable(ks[j].key_code)
                  /\ ks[k].timestamp - ks[j].timestamp <= 100}

\* C14: an event is flagged as paste only when at least 20 printable
\* characters fall in the 100 ms up to it: 19 characters within a millisecond
\* flag nothing, and neither do characters typed one by one 200 ms apart,
\* however many.
C14_NoPasteBelowTwentyInWindow ==
    /\ \A k \in Flagged(keystrokes) :
          Cardinality(PrintableInWindow(keystrokes, k)) >= 20
    /\ Len(typed) + Len(script) = 19 => Flagged(keystrokes) = {}
    /\ (pace = 200 /\ chunkSize = 1) => Flagged(keystrokes) = {}

\* a hundred characters were typed 200 ms apart and none is flagged
C14_Witness ==
    /\ pace = 200
    /\ chunkSize = 1
    /\ script = <<>>
    /\ typed = Burst(100)
    /\ Len(keystrokes) = 100
    /\ Flagged(keystrokes) = {}

\* the digits 0..9 and A..F
UpperHexDigits == <<48, 49, 50, 51, 52, 53, 54, 55, 56, 57, 65, 66, 67, 68, 69, 70>>

\* the table of key names: the name and whether the key is special
KeyTable(b) ==
    IF b = 0 THEN [name |-> <<78, 85, 76, 76>>, special |-> TRUE]
    ELSE IF b \in 1..7
    THEN [name |-> <<67, 116, 114, 108, 43, 64 + b>>, special |-> TRUE]
    ELSE IF b \in {8, 127}
    THEN [name |-> <<66, 97, 99, 107, 115, 112, 97, 99, 101>>, special |-> TRUE]
    ELSE IF b = 9 THEN [name |-> <<84, 97, 98>>, special |-> TRUE]
    ELSE IF b \in {10, 13}
    THEN [name |-> <<69, 110, 116, 101, 114>>, special |-> TRUE]
    ELSE IF b = 27 THEN [name |-> <<69, 83, 67>>, special |-> TRUE]
    ELSE IF b \in 32..126 THEN [name |-> <<b>>, special |-> FALSE]
    ELSE [name |-> <<48, 120, UpperHexDigits[(b \div 16) + 1],
                     UpperHexDigits[(b % 16) + 1]>>,
          special |-> TRUE]

\* C15: for every byte 0..255 decode_key returns the name and specialness of
\* the table: NULL, Ctrl+A..Ctrl+G, Backspace, Tab, Enter, ESC (special), the
\* character itself for 32..126 (not special), and 0x with two upper-case
\* hexadecimal digits for every other byte (special).
C15_DecodeKeyFollowsTable ==
    /\ \A k \in 1..Len(decoded) :
          decoded[k] = KeyTable(typed[Len(typed) - Len(decoded) + k])
    /\ \A k \in 1..Len(keystrokes) :
          keystrokes[k].key_name = KeyTable(keystrokes[k].key_code).name

\* byte 200 was decoded: "0xC8", special
C15_Witness ==
    /\ typed = <<200>>
    /\ decoded = <<[name |-> <<48, 120, 67, 56>>, special |-> TRUE]>>
    /\ keystrokes[1].key_name = <<48, 120, 67, 56>>

EnvelopeIntact ==
    /\ sealedWith \in Passwords
    /\ \E seed \in NonceSeeds :
          envelope = RecorderEncryptFile(secret, sealedWith, seed)

\* C17: decrypt_file, of the recorder and of the viewer, returns the bytes
\* that encrypt_file was given when the password is the same and an error
\* for every other password; both tools derive the same key from a password
\* (salt, iteration count, PRF) and read the same layout, the nonce and then
\* the ciphertext with its tag.
C17_DecryptInvertsEncrypt ==
    /\ \A password \in Passwords :
          RecorderDeriveKey(password) = ViewerDeriveKey(password)
    /\ (opened.password # "none" /\ EnvelopeIntact) =>
          /\ opened.viewer = opened.recorder
          /\ opened.password = sealedWith =>
                /\ opened.recorder.ok /\ opened.recorder.val = secret
                /\ opened.viewer.ok /\ opened.viewer.val = secret
          /\ opened.password # sealedWith =>
                /\ ~opened.recorder.ok
                /\ ~opened.viewer.ok

\* two bytes went through encrypt_file and the viewer's decrypt_file
C17_Witness ==
    /\ opened.password # "none"
    /\ EnvelopeIntact
    /\ secret = <<7, 200>>
    /\ opened.password = sealedWith
    /\ opened.viewer.ok
    /\ opened.viewer.val = <<7, 200>>

\* C18: an envelope shorter than 28 bytes, the nonce and the tag, is rejected
\* with an error by decrypt_file of both tools and by decrypt_state, whatever
\* key it was sealed with.
C18_ShortEnvelopeRejected ==
    (opened.password # "none" /\ Len(envelope) < 28) =>
        /\ ~opened.recorder.ok
        /\ ~opened.viewer.ok
        /\ ~opened.state.ok

\* 27 bytes of an envelope sealed with the state key were rejected for the
\* missing tag byte
C18_Witness ==
    /\ opened.password # "none"
    /\ Len(envelope) = 27
    /\ sealedWith = StateKeyName
    /\ opened.state.err = "Decryption failed"
    /\ opened.viewer.err = "Decryption failed"

\* the JSON payloads come back as values that are written as the same bytes
JsonPayloadsRecovered ==
    /\ viewed.data.ok
    /\ ToStringPretty(viewed.data.events) = ArtifactPayload.events
    /\ ToStringPretty(viewed.data.summary) = ArtifactPayload.summary
    /\ ToStringPretty(viewed.data.metadata) = ArtifactPayload.metadata
    /\ ToStringPretty(viewed.data.state_copy) = ArtifactPayload.state_copy

\* C19: an artifact packed by Recorder::finalize and read by the viewer with
\* the same password gives back each of the five payloads byte for byte, the
\* terminal output also when it is no valid UTF-8, and the integrity check
\* passes both in Decryptor::verify_integrity and in integrity_passed of the
\* report.
C19_RoundTripRecoversPayloads ==
    /\ (viewed.ran /\ viewed.password = InstructorPassword /\ ArtifactIntact) =>
          /\ JsonPayloadsRecovered
          /\ viewed.data.terminal_output = artifact.terminal_output
          /\ report.ran
          /\ report.val.integrity_passed
    /\ (verified.ran /\ verified.password = InstructorPassword /\ ArtifactIntact) =>
          /\ verified.res.ok
          /\ verified.res.val

\* the text of the member integrity.sha256 of the file
IntegrityText == TrimBlocks(LastOf(MembersOf(zipFile), NameIntegrity))

\* C20: every integrity result of the viewer is the comparison of
\* integrity.sha256 with the SHA-256 of the five inner ciphertexts in the
\* order events, summary, metadata, terminal_output, state_copy, whatever the
\* order of the members in the archive; a mismatch does not keep
\* Decryptor::decrypt from returning the data.
C20_IntegrityComparesPackedHash ==
    /\ (verified.ran /\ verified.password = InstructorPassword) =>
          /\ verified.res.ok
          /\ verified.res.val = (IntegrityText = PackedHash(MembersOf(zipFile)))
    /\ (viewed.ran /\ viewed.password = InstructorPassword) =>
          /\ viewed.data.ok
          /\ report.ran
          /\ report.val.integrity_passed = (IntegrityText = PackedHash(MembersOf(zipFile)))

\* a byte of the outer envelope past the nonce was changed
OuterFlipped == \E k \in (NonceLen + 1)..Len(zipFile) : DOMAIN zipFile[k] = {"changed"}

\* a byte of an encrypted member was changed
InnerFlipped == FileOpens /\ ~NoByteChanged(MembersOf(zipFile))

\* C21: a changed byte in the ciphertext of a valid artifact is detected: in
\* the outer envelope past byte 12 it makes the outer decrypt fail in
\* Decryptor::decrypt and in Decryptor::verify_integrity; in one of the five
\* inner ciphertexts it makes the decrypt of the member fail in
\* Decryptor::decrypt and the comparison of Decryptor::verify_integrity false.
C21_FlippedCiphertextDetected ==
    /\ (viewed.ran /\ OuterFlipped) =>
          /\ ~viewed.data.ok
          /\ viewed.data.err = "Failed to decrypt ZIP file"
    /\ (verified.ran /\ OuterFlipped) =>
          /\ ~verified.res.ok
          /\ verified.res.err = "Failed to decrypt ZIP file"
    /\ (viewed.ran /\ viewed.password = InstructorPassword /\ InnerFlipped) =>
          /\ ~viewed.data.ok
          /\ viewed.data.err = "Decryption failed"
    /\ (verified.ran /\ verified.password = InstructorPassword /\ InnerFlipped) =>
          /\ verified.res.ok
          /\ ~verified.res.val

\* both commands have read an archive with a changed byte in a member
C21_Witness ==
    /\ InnerFlipped
    /\ viewed.ran /\ viewed.password = InstructorPassword
    /\ viewed.data.err = "Decryption failed"
    /\ verified.ran /\ verified.password = InstructorPassword
    /\ verified.res.ok /\ ~verified.res.val

\* the members Recorder::finalize put in the archive
PackedMembers == ZipFiles(ArtifactPayload, nArtifacts - 1)

\* the archive is the one Recorder::finalize wrote but for the contents of
\* its member integrity.sha256
OnlyIntegrityAltered ==
    /\ artifact.written
    /\ FileOpens
    /\ LET members == MembersOf(zipFile)
       IN  /\ Len(members) = 6
           /\ \A k \in 1..5 : members[k] = PackedMembers[k]
           /\ members[6].name = NameIntegrity
           /\ members[6].contents # PackedMembers[6].contents

\* Decryptor::decrypt returned the five payloads of the artifact
PayloadsReturned ==
    /\ JsonPayloadsRecovered
    /\ viewed.data.terminal_output = Utf8Lossy(artifact.terminal_output)

\* C22 as stated: with only integrity.sha256 altered, Decryptor::decrypt
\* succeeds with the five payloads and Decryptor::verify_integrity returns
\* Ok(false).
C22_AlteredHashVerifiesFalse ==
    /\ (viewed.ran /\ viewed.password = InstructorPassword /\ OnlyIntegrityAltered) =>
          PayloadsReturned
    /\ (verified.ran /\ verified.password = InstructorPassword /\ OnlyIntegrityAltered) =>
          /\ verified.res.ok
          /\ ~verified.res.val

\* C22: with only integrity.sha256 altered, Decryptor::decrypt succeeds with
\* the five payloads and Decryptor::verify_integrity returns Ok, never an
\* error: Ok(false) when the text of the member without the white space
\* around it is not the digest, Ok(true) when it still is.
C22_AlteredHashVerifiesByTrimmedText ==
    /\ (viewed.ran /\ viewed.password = InstructorPassword /\ OnlyIntegrityAltered) =>
          PayloadsReturned
    /\ (verified.ran /\ verified.password = InstructorPassword /\ OnlyIntegrityAltered) =>
          /\ verified.res.ok
          /\ verified.res.val = (IntegrityText = PackedMembers[6].contents)

\* both commands have read an archive whose integrity.sha256 holds the
\* digest of nothing
C22_Witness ==
    /\ OnlyIntegrityAltered
    /\ IntegrityText = CalculateFileHash(<<>>)
    /\ viewed.ran /\ viewed.password = InstructorPassword /\ viewed.data.ok
    /\ verified.ran /\ verified.password = InstructorPassword
    /\ verified.res.ok /\ ~verified.res.val

\* the members the archive lacks
MissingNames ==
    {PackedNames[k] : k \in {j \in 1..6 : IndicesOf(MembersOf(zipFile), PackedNames[j]) = {}}}

\* the error that names a missing member
MissingMessage(name) ==
    CASE name = NameEvents -> "Missing events.json.enc"
      [] name = NameSummary -> "Missing summary.json.enc"
      [] name = NameMetadata -> "Missing metadata.json.enc"
      [] name = NameTerminalOutput -> "Missing terminal_output.log.enc"
      [] name = NameStateCopy -> "Missing state_copy.json.enc"
      [] name = NameIntegrity -> "Missing integrity.sha256"

\* C23: an archive that lacks one of the six members is a fatal error that
\* names the missing file, in Decryptor::decrypt and in
\* Decryptor::verify_integrity: neither data nor a verdict is returned.
C23_MissingMemberIsFatal ==
    (FileOpens /\ MissingNames # {}) =>
        /\ (viewed.ran /\ viewed.password = InstructorPassword) =>
              /\ ~viewed.data.ok
              /\ \E name \in MissingNames : viewed.data.err = MissingMessage(name)
        /\ (verified.ran /\ verified.password = InstructorPassword) =>
              /\ ~verified.res.ok
              /\ \E name \in MissingNames : verified.res.err = MissingMessage(name)

\* the raw bytes of the events flagged as paste, one after the other
RECURSIVE PasteBytes(_)
PasteBytes(ks) ==
    IF ks = <<>> THEN <<>>
    ELSE (IF ks[1].is_paste THEN ks[1].raw_bytes ELSE <<>>) \o PasteBytes(Tail(ks))

\* the events of a name
EventsNamed(ks, name) == SelectSeq(ks, LAMBDA e : e.key_name = name)

\* C24: the summary of an artifact counts its history: total_keystrokes is
\* the number of keystroke events, enter_pressed, backspace_used and
\* delete_used the number of events named Enter, Backspace and Delete,
\* paste_events the number of events with is_paste, total_pasted_chars the
\* sum of the lengths of their raw_bytes, commands_executed the number of
\* command events.
C24_SummaryCountsHistory ==
    artifact.written =>
        /\ artifact.events = keystrokes
        /\ artifact.commands = commands
        /\ artifact.summary.total_keystrokes = Len(keystrokes)
        /\ artifact.summary.enter_pressed = Len(EventsNamed(keystrokes, NameEnter))
        /\ artifact.summary.backspace_used = Len(EventsNamed(keystrokes, NameBackspace))
        /\ artifact.summary.delete_used = Len(EventsNamed(keystrokes, NameDelete))
        /\ artifact.summary.paste_events = Len(SelectSeq(keystrokes, LAMBDA e : e.is_paste))
        /\ artifact.summary.total_pasted_chars = Len(PasteBytes(keystrokes))
        /\ artifact.summary.commands_executed = Len(commands)

\* the artifact of "a" Backspace "b" Ctrl+H Enter: five events, two of them
\* Backspace, one Enter, no command
C24_Witness ==
    /\ artifact.written
    /\ typed = <<97, 127, 98, 8, 10>>
    /\ artifact.summary.total_keystrokes = 5
    /\ artifact.summary.backspace_used = 2
    /\ artifact.summary.enter_pressed = 1
    /\ artifact.summary.paste_events = 0
    /\ artifact.summary.commands_executed = 0

\* Recorder::new has returned a recorder in this step
RecorderCreated == pc = "idle" /\ pc' = "created"

\* C25: the state_copy of every artifact is the counter as it was persisted
\* at the start of the session, and metadata.run_counter equals
\* state_copy.run_counter: Recorder::new leaves in the file the state it
\* keeps and gives its counter to the metadata, nothing changes either until
\* the process ends, and finalize writes both.
C25_StateCopyIsPersistedCounter ==
    /\ [](artifact.written =>
             artifact.metadata.run_counter = artifact.state_copy.run_counter)
    /\ [][/\ RecorderCreated =>
                /\ file'.exists
                /\ file'.json = ToJson(state')
                /\ metadata'.run_counter = state'.run_counter
          /\ pc \in ForkedPcs \cup {"created"} =>
                /\ state' = state
                /\ metadata'.run_counter = metadata.run_counter
          /\ artifact' # artifact =>
                /\ artifact'.state_copy = state
                /\ artifact'.metadata.run_counter = metadata.run_counter]_vars

\* the second session on the machine has written its artifact
C25_Witness ==
    /\ artifact.written
    /\ nArtifacts = 2
    /\ artifact.state_copy.run_counter = 2
    /\ artifact.metadata.run_counter = 2
    /\ state.run_counter = 2

\* C26: once the relay loop has ended, the parent restores the terminal,
\* then reaps the child with waitpid, then runs finalize: the artifact is
\* written only after the child was waited for, the child is waited for only
\* with the terminal restored, and no forked recorder ends with its child
\* not reaped.
C26_RestoreThenReapThenFinalize ==
    [][/\ nArtifacts' # nArtifacts =>
              /\ shell = "reaped"
              /\ termios = original_termios
       /\ (shell' = "reaped" /\ shell # "reaped") => termios = original_termios
       /\ (pc \in ForkedPcs /\ pc' = "exited") => shell' = "reaped"]_vars


\* the breaks of the relay loop that carry Ok: end of input on stdin, end of
\* input on the master, should_exit
NormalEnds == {"stdin_eof", "master_eof", "should_exit"}

\* the breaks that carry an error
ErrorEnds == {"poll_error", "stdin_error", "master_error"}

\* the messages of the errors that leave the loop through a ?
WriteErrors == {"master write", "stdout"}

\* the loop is over and finalize has returned
AfterFinalize == pc = "waitpid" \/ (pc = "exited" /\ exitReason \in NormalEnds)

\* the loop was left by an error and the process has ended
EndedByError ==
    pc = "exited" /\ (exitReason \in ErrorEnds \/ err \in WriteErrors)

\* the artifact holds the keystroke events and the terminal output the recorder
\* had when the loop was left
ArtifactHoldsSession ==
    /\ nArtifacts = 1
    /\ artifact.written
    /\ artifact.events = keystrokes
    /\ artifact.terminal_output = terminal_output

KeyCodes(ks) == [k \in 1..Len(ks) |-> ks[k].key_code]

\* s is the beginning of t
IsPrefix(s, t) == Len(s) <= Len(t) /\ SubSeq(t, 1, Len(s)) = s

\* a read of stdin returned data, which process_input classified and write_all
\* then wrote to the master
ChunkForwarded == pc \in {"stdin"} /\ forwarded' # forwarded

\* C28: within one read of stdin, all bytes of the chunk are classified, in the
\* order they arrived, before the chunk is written to the PTY master; so at
\* every point of the loop the bytes forwarded to the shell are a prefix of the
\* bytes of the recorded keystroke events.
C28_ForwardedIsPrefixOfRecorded ==
    /\ [](/\ IsPrefix(forwarded, KeyCodes(keystrokes))
          /\ KeyCodes(keystrokes) \o tty = typed)
    /\ [][ChunkForwarded =>
             /\ KeyCodes(keystrokes') = KeyCodes(keystrokes) \o SubSeq(tty, 1, Len(tty) - Len(tty'))
             /\ forwarded' = KeyCodes(keystrokes')]_vars

\* a chunk of several bytes was recorded and forwarded, and a later chunk was
\* recorded while the write to the master failed
C28_Witness ==
    /\ err = "master write"
    /\ Len(forwarded) >= 2
    /\ Len(keystrokes) > Len(forwarded)
    /\ IsPrefix(forwarded, KeyCodes(keystrokes))

\* the chunk a read of the master returned in this step
ChunkRead == SubSeq(ptyOut, 1, Len(ptyOut) - Len(ptyOut'))

\* a read of the master returned data in this step
MasterRead == pc = "master" /\ Len(ptyOut') < Len(ptyOut)

\* C29: each chunk read from the PTY master is appended to terminal_output
\* before it is written to the real stdout: at every point the bytes shown to
\* the user are a prefix of terminal_output, and terminal_output is the
\* concatenation, in the order they were read, of all chunks read from the master.
C29_ShownIsPrefixOfBuffer ==
    /\ [](/\ IsPrefix(shown, terminal_output)
          /\ Len(terminal_output) - Len(shown) <= BufSize)
    /\ [][/\ MasterRead => terminal_output' = terminal_output \o ChunkRead
          /\ ~MasterRead => terminal_output' = terminal_output
          /\ shown' # shown => MasterRead /\ shown' = terminal_output']_vars

\* two chunks were read, the second of another byte than the first; the first
\* was shown, the second was recorded while its write to stdout failed
C29_Witness ==
    /\ Len(terminal_output) >= 2
    /\ terminal_output[1] # terminal_output[Len(terminal_output)]
    /\ shown # <<>>
    /\ Len(shown) < Len(terminal_output)
    /\ IsPrefix(shown, terminal_output)
    /\ err = "stdout"

\* a recorder process runs Recorder::new while there is no state file
NewWithoutFile == pc = "idle" /\ runs' = runs + 1 /\ ~file.exists

\* C30: when no state file exists, State::load returns run_counter = 0 and
\* last_run_time = none, without an error; so the first run, and the next run
\* after the state file was deleted, records run_counter = 1.
C30_NoFileStartsAtOne ==
    /\ [](/\ \A p \in BOOLEAN :
                StateLoad(NoFile, p) =
                    [ok |-> TRUE, err |-> "none",
                     val |-> [run_counter |-> 0, last_run_time |-> <<>>]]
          /\ \A k \in 1..Len(started) :
                (k = 1 \/ started[k].fresh) => started[k].run_counter = 1)
    /\ [][NewWithoutFile =>
             /\ StateLoad(file, privileged).ok
             /\ StateLoad(file, privileged).val.run_counter = 0
             /\ StateLoad(file, privileged).val.last_run_time = <<>>
             /\ pc' = "created"
             /\ loaded' = 0
             /\ state'.run_counter = 1
             /\ metadata'.run_counter = 1
             /\ file'.exists /\ file'.json.run_counter = 1
             /\ started' = Append(started, [run_counter |-> 1, fresh |-> TRUE])]_vars

\* a first run recorded 1, a second run recorded 2, the state file was deleted
\* and the third run recorded 1
C30_Witness ==
    /\ Len(started) = 3
    /\ started[1] = [run_counter |-> 1, fresh |-> TRUE]
    /\ started[2] = [run_counter |-> 2, fresh |-> FALSE]
    /\ started[3] = [run_counter |-> 1, fresh |-> TRUE]
    /\ pc = "created" /\ loaded = 0 /\ metadata.run_counter = 1

\* poll returned 0, or Err(EINTR), in this step
PollContinues == pc = "poll" /\ io' # io /\ io'.poll \in {"timeout", "eintr"}

\* poll returned another error in this step
PollFailed == pc = "poll" /\ io'.poll = "error"

\* C31: a poll timeout and a poll interrupted by EINTR leave every piece of
\* recorder state unchanged (keystrokes, commands, line buffer, paste window,
\* terminal-output buffer, terminal mode) and the loop polls again; no other
\* error of poll is retried.
C31_TimeoutAndEintrChangeNothing ==
    [][/\ PollContinues =>
             /\ UNCHANGED <<keystrokes, commands, current_input, recent_keystrokes,
                            terminal_output, termios>>
             /\ UNCHANGED <<state, metadata, forwarded, shown, tty, ptyOut,
                            artifact, nArtifacts, result, exitReason>>
             /\ pc' = "poll"
       /\ PollFailed =>
             /\ pc' = "restore"
             /\ result' = "err"
             /\ exitReason' = "poll_error"]_vars

\* poll was interrupted in the middle of a line, after terminal output was
\* recorded, in raw mode, and the recorder polls again
C31_Witness ==
    /\ pc = "poll"
    /\ io.poll = "eintr"
    /\ current_input # <<>>
    /\ keystrokes # <<>>
    /\ terminal_output # <<>>
    /\ termios = "raw"

\* the Enter events of a history
EnterEvents(ks) == SelectSeq(ks, LAMBDA e : e.key_name = NameEnter)

\* a command as process_input may push it: not empty, not "exit", no
\* whitespace at either end
WellFormedCommand(cmd) ==
    /\ cmd # <<>>
    /\ cmd # ExitWord
    /\ ~IsWhitespace(cmd[1])
    /\ ~IsWhitespace(cmd[Len(cmd)])

\* C32: after any sequence of input bytes the line buffer holds only printable
\* ASCII (32..126), never a line terminator or a control byte; the commands
\* vector never holds the string "exit", an empty string, or a string with
\* leading or trailing whitespace; and there are never more CommandEvents than
\* Enter keystroke events.
C32_LineBufferAndCommandsWellFormed ==
    /\ \A k \in 1..Len(current_input) : IsPrintable(current_input[k])
    /\ \A k \in 1..Len(commands) : WellFormedCommand(commands[k].command)
    /\ Len(commands) <= Len(EnterEvents(keystrokes))
    /\ GenerateSummary(keystrokes, commands).commands_executed
          <= GenerateSummary(keystrokes, commands).enter_pressed

\* a line with blanks around a word and control bytes in it was entered, and
\* the next line is being typed: " t", Ctrl+C, Enter, "t"
C32_Witness ==
    /\ typed = <<32, 116, 3, 10, 116>>
    /\ commands # <<>>
    /\ commands[1].command = <<116>>
    /\ current_input = <<116>>
    /\ Len(EnterEvents(keystrokes)) = 1

\* the last flagged event before event k, 0 when there is none
FlaggedBefore(ks, k) ==
    IF \E j \in Flagged(ks) : j < k
    THEN SetMax({j \in Flagged(ks) : j < k})
    ELSE 0

\* the printable events that are not flagged, after event i and before event k
UnflaggedBetween(ks, i, k) ==
    {j \in (i + 1)..(k - 1) : IsPrintable(ks[j].key_code) /\ ~ks[j].is_paste}

\* the events for printable bytes
PrintableEvents(ks) == {k \in 1..Len(ks) : IsPrintable(ks[k].key_code)}

\* C33: is_paste is true only on events for printable bytes 32..126; at least
\* 19 unflagged printable keystrokes lie between the session start and the
\* first flagged keystroke and between any two flagged keystrokes; the paste
\* window is empty right after a keystroke was flagged; and paste_events
\* always equals total_pasted_chars.
C33_FlagsApartAndWindowCleared ==
    /\ \A k \in Flagged(keystrokes) :
          /\ IsPrintable(keystrokes[k].key_code)
          /\ Cardinality(UnflaggedBetween(keystrokes, FlaggedBefore(keystrokes, k), k))
                >= MinCharsForPaste - 1
    /\ (/\ PrintableEvents(keystrokes) # {}
        /\ SetMax(PrintableEvents(keystrokes)) \in Flagged(keystrokes)) =>
          recent_keystrokes = <<>>
    /\ GenerateSummary(keystrokes, commands).paste_events
          = GenerateSummary(keystrokes, commands).total_pasted_chars

\* forty characters within a millisecond: the 20th and the 40th are flagged,
\* and the window is empty after the 40th
C33_Witness ==
    /\ Flagged(keystrokes) = {20, 40}
    /\ Len(keystrokes) = 40
    /\ recent_keystrokes = <<>>
    /\ GenerateSummary(keystrokes, commands).total_pasted_chars = 2

\* the bytes that are neither printable, nor a line terminator, nor 8 or 127
InertBytes == (0..255) \ ((32..126) \cup LineTerminators \cup {8, 127})

\* NUL, Ctrl+C, Tab, Ctrl+U, ESC, and the ends and the middle of 128..255
ControlSamples == {0, 3, 9, 21, 27, 128, 200, 255}

\* the inert bytes tried in a state: all of them on the first two bytes of a
\* session, the samples later on
InertBytesTried == IF Len(keystrokes) <= 1 THEN InertBytes ELSE ControlSamples

\* what process_input leaves when it is handed the one byte b now
AfterByte(b) == ProcessInput(Classifier, <<b>>, clock, clock)

\* process_input was handed one inert byte in this step
InertByteTyped ==
    \E b \in InertBytes : typed' = Append(typed, b)

\* C34: a byte that is neither printable, nor a line terminator, nor 8 or 127
\* (Tab, ESC, Ctrl+C, Ctrl+U, any byte from 128 on) leaves the line buffer, the
\* commands vector and the paste window unchanged and only appends one
\* keystroke event; so a line cancelled in the shell with Ctrl+C or Ctrl+U
\* stays in the line buffer: "exi", Ctrl+C, "t" makes should_exit true.
C34_ControlBytesOnlyAppendAnEvent ==
    /\ [](/\ \A b \in InertBytesTried :
                AfterByte(b) =
                    [keystrokes |-> Append(keystrokes,
                                           [timestamp |-> clock,
                                            key_code  |-> b,
                                            key_name  |-> DecodeKey(b).name,
                                            raw_bytes |-> <<b>>,
                                            is_paste  |-> FALSE]),
                     commands |-> commands,
                     current_input |-> current_input,
                     recent |-> recent_keystrokes]
          /\ typed \in {<<101, 120, 105, 3, 116>>, <<101, 120, 105, 21, 116>>} =>
                ShouldExit(current_input))
    /\ [][InertByteTyped =>
             /\ UNCHANGED <<current_input, commands, recent_keystrokes>>
             /\ Len(keystrokes') = Len(keystrokes) + 1
             /\ SubSeq(keystrokes', 1, Len(keystrokes)) = keystrokes]_vars

\* "exi", Ctrl+C, "t" was typed: five events, and the line buffer reads exit
C34_Witness ==
    /\ typed = <<101, 120, 105, 3, 116>>
    /\ Len(keystrokes) = 5
    /\ keystrokes[4].key_name = NameCtrl(67)
    /\ current_input = ExitWord
    /\ ShouldExit(current_input)

\* the strings of the CommandEvents of the recorder
CommandStrings(cmds) == [k \in 1..Len(cmds) |-> cmds[k].command]

\* the viewer has analysed the artifact as the recorder wrote it
ReportOnArtifact ==
    /\ report.ran
    /\ viewed.ran /\ viewed.password = InstructorPassword
    /\ ArtifactIntact

\* C35: for every recorded keystroke sequence, the command list the viewer
\* reconstructs from the events payload (Analyzer::analyze) equals, element by
\* element, the command list the recorder built while recording, and its
\* length equals summary.commands_executed.
C35_ViewerCommandsEqualRecorderCommands ==
    ReportOnArtifact =>
        /\ report.val.commands = CommandStrings(artifact.commands)
        /\ Len(report.val.commands) = artifact.summary.commands_executed

\* a read of stdin returned data in this step
StdinRead == pc = "stdin" /\ Len(tty') < Len(tty)

\* the stdin chunk read in this step was forwarded and left should_exit true
ExitChunkForwarded ==
    StdinRead /\ forwarded' # forwarded /\ ShouldExit(current_input')

\* C36: in one loop iteration in which both stdin and the master are
\* readable, the stdin chunk is classified and forwarded before the master
\* chunk is read, and at most one chunk is taken from each descriptor; if the
\* stdin chunk sets should_exit, the loop exits after forwarding that chunk to
\* the master, without reading the master output that is pending.
C36_StdinBeforeMasterOneChunkEach ==
    [][/\ StdinRead =>
             /\ io.stdin = "none" /\ io.master = "none"
             /\ io'.stdin = "data"
             /\ ptyOut' = ptyOut /\ terminal_output' = terminal_output
       /\ MasterRead =>
             /\ io.master = "none"
             /\ io'.master = "data"
             /\ io.stdin_ready => io.stdin \in {"data", "wouldblock"}
             /\ io.stdin = "data" =>
                   /\ forwarded = KeyCodes(keystrokes)
                   /\ ~ShouldExit(current_input)
             /\ tty' = tty /\ keystrokes' = keystrokes /\ forwarded' = forwarded
       /\ ExitChunkForwarded =>
             /\ pc' = "restore" /\ exitReason' = "should_exit"
             /\ forwarded' = KeyCodes(keystrokes')
       /\ exitReason = "should_exit" =>
             /\ terminal_output' = terminal_output
             /\ pc' # "master"]_vars

\* poll found both descriptors readable, the stdin chunk ended in exit and
\* was forwarded, and the loop was left with the master output unread
C36_Witness ==
    /\ pc = "restore"
    /\ exitReason = "should_exit"
    /\ io.stdin_ready /\ io.master_ready
    /\ io.stdin = "data" /\ io.master = "none"
    /\ ptyOut # <<>>
    /\ forwarded = KeyCodes(keystrokes)

\* what State::save returns in Recorder::new for the state State::load returned
SaveInNew ==
    StateSave(IncrementCounter(StateLoad(file, privileged).val, Secs(clock)),
              file, privileged)

\* Recorder::new runs in this step and State::load or State::save fails in it
NewFails ==
    /\ pc = "idle" /\ runs' = runs + 1
    /\ ~StateLoad(file, privileged).ok \/ ~SaveInNew.ok

\* the process has ended and Recorder::new never returned a recorder
EndedInNew == pc = "exited" /\ metadata = NoMetadata

\* C37: if State::load or State::save fails in Recorder::new, the recorder
\* never allocates a PTY, never forks, never puts the terminal in raw mode and
\* never writes an artifact; the process reports the error and exits with code
\* 1; and it exits with code 0 only when start() returned Ok.
C37_FailedNewDoesNothingAndExitsOne ==
    /\ [](/\ EndedInNew =>
                /\ shell = "none"
                /\ original_termios = "none" /\ termios = "cooked"
                /\ nArtifacts = 0 /\ ~artifact.written /\ zipFile = <<>>
                /\ exitCode = ExitFailure
                /\ err # "none"
          /\ (pc = "exited" /\ exitCode = ExitSuccess) =>
                /\ metadata # NoMetadata
                /\ result = "ok"
                /\ shell = "reaped"
                /\ nArtifacts = 1
                /\ err = "none")
    /\ [][NewFails =>
             /\ pc' = "exited"
             /\ exitCode' = ExitFailure
             /\ err' = IF ~StateLoad(file, privileged).ok
                       THEN StateLoad(file, privileged).err
                       ELSE SaveInNew.err
             /\ UNCHANGED <<file, shell, termios, original_termios, artifact,
                            nArtifacts, zipFile, metadata, started>>]_vars

\* State::load read the file and State::save could not write it: the process
\* has exited with code 1, with no shell, the terminal untouched, no artifact
C37_Witness ==
    /\ EndedInNew
    /\ err = "Failed to write state file"
    /\ exitCode = ExitFailure
    /\ shell = "none"
    /\ nArtifacts = 0
=============================================================================
